---- MODULE Spec2Model ----
(***************************************************************************)
(* A model of the kernel core of Amjad50/OS:                               *)
(*   - the spin mutex and the per-CPU interrupt gate                       *)
(*       kernel/src/sync/spin/mutex.rs, src/cpu/mod.rs                     *)
(*   - the 4-level virtual memory mapper                                   *)
(*       kernel/src/memory_management/virtual_memory_mapper.rs             *)
(*   - the FAT12/16/32 filesystem reader                                   *)
(*       kernel/src/fs/fat.rs                                              *)
(*   - the package length decoder of the AML parser                        *)
(*       kernel/src/acpi/aml.rs                                            *)
(* Every subsystem has its own specification (SpecMutex, SpecVM, SpecFat,  *)
(* SpecAml) over the variables of the module: SpecMutex leaves the mappers *)
(* as they are after boot, SpecVM runs the operations of the mappers on    *)
(* the boot CPU, SpecFat runs the calls of the filesystem reader on one    *)
(* mounted volume, SpecAml runs the parser's cursor over one byte slice.   *)
(***************************************************************************)
EXTENDS Integers, Sequences, FiniteSets, TLC

(***************************************************************************)
(* Bounds of the model                                                     *)
(***************************************************************************)
\* number of CPUs that run kernel code
NumCpus == 2
\* number of Mutex objects
NumMutexes == 1

\* frames of physical memory: 0 .. NumFrames - 1
NumFrames == 20
\* mapper operations in one behaviour
MaxOps == 4
\* address spaces, the kernel's included
MaxVms == 3

Cpus == 1..NumCpus
Mutexes == 1..NumMutexes

VARIABLES
    \* ---- spin mutex / interrupt gate ----
    locked,                 \* lock::Lock of every Mutex: the atomic flag
    owner_cpu,              \* Mutex::owner_cpu, -1 when nobody owns it
    n_cli,                  \* CPUS[slot].n_cli
    old_interrupt_enable,   \* CPUS[slot].old_interrupt_enable
    iflag,                  \* rflags.IF of every CPU (hardware, per CPU)
    pc,                     \* position of every CPU in lock() / drop()
    target,                 \* the Mutex the CPU is locking or unlocking
    held,                   \* guards the CPU holds (lock() returned, not yet unlocked)
    if_before,              \* IF of the CPU when it called lock() holding no guard
    \* ---- virtual memory mapper ----
    mem,                    \* physical memory: frame -> table held in the frame
    free,                   \* the free list of the physical page allocator
    vms,                    \* the VirtualMemoryMapper handles; vms[1] is the kernel's
    cr3,                    \* the frame of the L4 table the MMU uses
    last,                   \* the last mapper operation, its arguments and outcome
    nops,                   \* number of mapper operations so far
    \* ---- FAT filesystem reader ----
    volume,                 \* the mounted FatFilesystem: boot sector, FAT, disk
    inodes,                 \* the INodes the caller has got from directory listings
    reader,                 \* a caller that reads one file from its start to its end
    fsres,                  \* the last filesystem call, its arguments and result
    \* ---- AML parser ----
    parser,                 \* Parser: the byte slice and the cursor
    amlres                  \* the last parser call and its result

mutexVars == <<locked, owner_cpu, n_cli, old_interrupt_enable, iflag, pc,
               target, held, if_before>>

vmVars == <<mem, free, vms, cr3, last, nops>>

fsVars == <<volume, inodes, reader, fsres>>

amlVars == <<parser, amlres>>

ioVars == <<fsVars, amlVars>>

vars == <<mutexVars, vmVars, ioVars>>

(***************************************************************************)
(* src/cpu/mod.rs                                                          *)
(***************************************************************************)
MAX_CPUS == 8

\* cpu(): the Cpu structure the running CPU uses; the code returns CPUS[0]
\* whatever CPU runs it
CpuSlot(c) == 0

CpuSlots == 0..(MAX_CPUS - 1)

\* Cpu::id of the structure cpu() returns: CPUS[i].id is i (Cpu::init), and 0
\* in the never initialised Cpu::empty() of slot 0
CpuId(c) == CpuSlot(c)

\* panic handler: interrupts cleared, the CPU spins forever
Panic(c) ==
    /\ pc' = [pc EXCEPT ![c] = "panicked"]
    /\ iflag' = [iflag EXCEPT ![c] = FALSE]

\* Cpu::push_cli. The accesses of one call to the Cpu structure are taken as
\* one step.
PushCli(c) ==
    LET s == CpuSlot(c) IN
    /\ IF n_cli[s] = 0
         THEN /\ old_interrupt_enable' = [old_interrupt_enable EXCEPT ![s] = iflag[c]]
              /\ iflag' = [iflag EXCEPT ![c] = FALSE]
         ELSE UNCHANGED <<old_interrupt_enable, iflag>>
    /\ n_cli' = [n_cli EXCEPT ![s] = n_cli[s] + 1]

\* Cpu::pop_cli
PopCli(c) ==
    /\ pc[c] = "pop_cli"
    /\ LET s == CpuSlot(c) IN
       IF iflag[c] \/ n_cli[s] = 0
         THEN /\ Panic(c)
              /\ UNCHANGED n_cli
         ELSE /\ n_cli' = [n_cli EXCEPT ![s] = n_cli[s] - 1]
              /\ IF n_cli[s] - 1 = 0 /\ old_interrupt_enable[s]
                   THEN iflag' = [iflag EXCEPT ![c] = TRUE]
                   ELSE UNCHANGED iflag
              /\ pc' = [pc EXCEPT ![c] = "idle"]
    /\ UNCHANGED <<locked, owner_cpu, old_interrupt_enable, target, held,
                   if_before>>

(***************************************************************************)
(* kernel/src/sync/spin/lock.rs (not among the sources): the atomic flag   *)
(* with an acquire test-and-set and a release store                        *)
(***************************************************************************)
\* Lock::lock succeeds for the caller that finds the flag clear
LockTestAndSet(m) ==
    /\ ~locked[m]
    /\ locked' = [locked EXCEPT ![m] = TRUE]

\* Lock::unlock
LockUnlock(m) == locked' = [locked EXCEPT ![m] = FALSE]

(***************************************************************************)
(* kernel/src/sync/spin/mutex.rs                                           *)
(***************************************************************************)
\* Mutex::lock is called: cpu::cpu(), then push_cli
MutexLock(c, m) ==
    /\ pc[c] = "idle"
    /\ PushCli(c)
    /\ pc' = [pc EXCEPT ![c] = "check_owner"]
    /\ target' = [target EXCEPT ![c] = m]
    /\ if_before' = [if_before EXCEPT ![c] =
                        IF held[c] = {} THEN iflag[c] ELSE if_before[c]]
    /\ UNCHANGED <<locked, owner_cpu, held>>

\* the owner test left out
OwnedByCaller_Never(c, m) == FALSE

\* the owner test of Mutex::lock
OwnedByCaller(c, m) == owner_cpu[m] = CpuId(c)

\* Mutex::lock: the load of owner_cpu and the panic
MutexLockCheckOwner(c) ==
    /\ pc[c] = "check_owner"
    /\ IF OwnedByCaller(c, target[c])
         THEN Panic(c)
         ELSE /\ pc' = [pc EXCEPT ![c] = "spin"]
              /\ UNCHANGED iflag
    /\ UNCHANGED <<locked, owner_cpu, n_cli, old_interrupt_enable, target, held,
                   if_before>>

\* the guard is handed out without self.lock.lock()
MutexLockSpin_NoWait(c) ==
    /\ pc[c] = "spin"
    /\ locked' = [locked EXCEPT ![target[c]] = TRUE]
    /\ pc' = [pc EXCEPT ![c] = "store_owner"]
    /\ UNCHANGED <<owner_cpu, n_cli, old_interrupt_enable, iflag, target, held,
                   if_before>>

\* Mutex::lock: self.lock.lock(), the busy wait
MutexLockSpin(c) ==
    /\ pc[c] = "spin"
    /\ LockTestAndSet(target[c])
    /\ pc' = [pc EXCEPT ![c] = "store_owner"]
    /\ UNCHANGED <<owner_cpu, n_cli, old_interrupt_enable, iflag, target, held,
                   if_before>>

\* Mutex::lock: the store of owner_cpu and the return of the guard
MutexLockStoreOwner(c) ==
    /\ pc[c] = "store_owner"
    /\ owner_cpu' = [owner_cpu EXCEPT ![target[c]] = CpuId(c)]
    /\ held' = [held EXCEPT ![c] = held[c] \cup {target[c]}]
    /\ pc' = [pc EXCEPT ![c] = "idle"]
    /\ UNCHANGED <<locked, n_cli, old_interrupt_enable, iflag, target, if_before>>

\* MutexGuard::drop: the store of -1 to owner_cpu
GuardDropClearOwner(c, m) ==
    /\ pc[c] = "idle"
    /\ m \in held[c]
    /\ owner_cpu' = [owner_cpu EXCEPT ![m] = -1]
    /\ target' = [target EXCEPT ![c] = m]
    /\ pc' = [pc EXCEPT ![c] = "unlock"]
    /\ UNCHANGED <<locked, n_cli, old_interrupt_enable, iflag, held, if_before>>

\* MutexGuard::drop: self.lock.lock.unlock()
GuardDropUnlock(c) ==
    /\ pc[c] = "unlock"
    /\ LockUnlock(target[c])
    /\ held' = [held EXCEPT ![c] = held[c] \ {target[c]}]
    /\ pc' = [pc EXCEPT ![c] = "pop_cli"]
    /\ UNCHANGED <<owner_cpu, n_cli, old_interrupt_enable, iflag, target,
                   if_before>>

(***************************************************************************)
(* kernel/src/memory_management/virtual_memory_mapper.rs                   *)
(*                                                                         *)
(* A 64-bit virtual address is the record of its fields                    *)
(*   top (bits 48-63), l4, l3, l2, l1 (the four 9-bit indices), off        *)
(* a physical address is its page frame number (address >> 12), a page     *)
(* table entry the record of its frame field and of its set of flag bits.  *)
(* A table is the function of its non-zero entries.                        *)
(***************************************************************************)
PTE_PRESENT == "P"
PTE_WRITABLE == "W"
PTE_USER == "U"
PTE_HUGE_PAGE == "HUGE"

\* ADDR_MASK = 0x0000_0000_FFFF_F000 on a frame number: bits 12..31 of the address
AddrMask(pfn) == pfn % 1048576

KERNEL_L4_INDEX == 511
KERNEL_L3_INDEX_START == 510
KERNEL_L3_PROCESS_INDEX_START == 0
KERNEL_L3_PROCESS_INDEX_END == KERNEL_L3_INDEX_START - 1
NUM_USER_L4_INDEXES == KERNEL_L4_INDEX

Va(top, l4, l3, l2, l1, off) ==
    [top |-> top, l4 |-> l4, l3 |-> l3, l2 |-> l2, l1 |-> l1, off |-> off]

KERNEL_PROCESS_VIRTUAL_ADDRESS_START ==
    Va(65535, KERNEL_L4_INDEX, KERNEL_L3_PROCESS_INDEX_START, 0, 0, 0)

MAX_USER_VIRTUAL_ADDRESS == Va(65535, KERNEL_L4_INDEX - 1, 511, 511, 511, 0)

get_l4(addr) == addr.l4
get_l3(addr) == addr.l3
get_l2(addr) == addr.l2
get_l1(addr) == addr.l1

\* u64 addition of a byte count (wrapping at 2^64)
VaAdd(va, bytes) ==
    LET o  == va.off + bytes
        i1 == va.l1 + (o \div 4096)
        i2 == va.l2 + (i1 \div 512)
        i3 == va.l3 + (i2 \div 512)
        i4 == va.l4 + (i3 \div 512)
        t  == va.top + (i4 \div 512)
    IN  Va(t % 65536, i4 % 512, i3 % 512, i2 % 512, i1 % 512, o % 4096)

\* u64 comparison a <= b
VaLeq(a, b) ==
    LET ha == a.l4 * 512 + a.l3
        hb == b.l4 * 512 + b.l3
        la == (a.l2 * 512 + a.l1) * 4096 + a.off
        lb == (b.l2 * 512 + b.l1) * 4096 + b.off
    IN  \/ a.top < b.top
        \/ a.top = b.top /\ ha < hb
        \/ a.top = b.top /\ ha = hb /\ la <= lb

PAGE_4K == 4096

ZeroEntry == [frame |-> 0, flags |-> {}]
Present(e) == PTE_PRESENT \in e.flags
EmptyTable == [i \in {} |-> ZeroEntry]
GetEntry(tbl, i) == IF i \in DOMAIN tbl THEN tbl[i] ELSE ZeroEntry
PutEntry(tbl, i, e) ==
    IF e = ZeroEntry
      THEN [j \in DOMAIN tbl \ {i} |-> tbl[j]]
      ELSE [j \in DOMAIN tbl \cup {i} |-> IF j = i THEN e ELSE tbl[j]]

NoPhys == [some |-> FALSE, pfn |-> 0]
SomePhys(p) == [some |-> TRUE, pfn |-> p]

(***************************************************************************)
(* memory_layout.rs and physical_page_allocator.rs (not among the          *)
(* sources): the direct map of physical memory at KERNEL_BASE and the      *)
(* free-list allocator of 4 KiB frames                                     *)
(***************************************************************************)
\* KERNEL_BASE >> 12; a pointer of the kernel into physical memory is the
\* frame number plus this offset
KernelBaseFrame == 2097152
physical2virtual(p) == p + KernelBaseFrame
virtual2physical(v) == v - KernelBaseFrame

KERNEL_BASE == Va(65535, KERNEL_L4_INDEX, KERNEL_L3_INDEX_START, 0, 0, 0)

\* the kernel image: frame 0 is low memory, frame 1 .text/.rodata, frame 2 the
\* start of .data; the allocator owns the frames from kernel_elf_end on
KernelTextFrame == 1
KernelDataFrame == 2
AllocStart == 3
Frames == 0..(NumFrames - 1)
AllocFrames == AllocStart..(NumFrames - 1)

\* align_range(addr, size, PAGE_4K): the start aligned down and the number of
\* pages that cover [addr, addr + size)
AlignRange(va, size) ==
    [start |-> [va EXCEPT !.off = 0],
     pages |-> (va.off + size + PAGE_4K - 1) \div PAGE_4K]

\* the state the mapper works on: memory, the allocator's free list, whether
\* the kernel has panicked, and the frames given back to the allocator
MkSt(m, f) ==
    [mem |-> m, free |-> f, panicked |-> FALSE, freed |-> <<>>, via |-> {}]

\* physical_page_allocator::alloc_zeroed: panics when no frame is left
AllocZeroed(st) ==
    IF st.panicked \/ st.free = <<>>
      THEN [st |-> [st EXCEPT !.panicked = TRUE], ptr |-> physical2virtual(0)]
      ELSE LET f == Head(st.free) IN
           [st |-> [st EXCEPT !.free = Tail(st.free), !.mem[f] = EmptyTable],
            ptr |-> physical2virtual(f)]

\* physical_page_allocator::free: panics for an address outside its range
FreePage(st, ptr) ==
    LET f == virtual2physical(ptr) IN
    IF st.panicked \/ f \notin AllocFrames
      THEN [st EXCEPT !.panicked = TRUE]
      ELSE [st EXCEPT !.free = <<f>> \o st.free, !.freed = Append(st.freed, f)]

(***************************************************************************)
(* PageDirectoryTablePtr                                                   *)
(***************************************************************************)
\* PageDirectoryTablePtr::from_entry
from_entry(e) == physical2virtual(AddrMask(e.frame))
\* PageDirectoryTablePtr::to_physical
to_physical(ptr) == virtual2physical(ptr)
\* as_ref / as_mut: the table behind the pointer; a pointer that leaves
\* physical memory faults
Faults(st, ptr) == virtual2physical(ptr) \notin DOMAIN st.mem
TableOf(st, ptr) == IF Faults(st, ptr) THEN EmptyTable ELSE st.mem[virtual2physical(ptr)]
EntryOf(st, ptr, i) == GetEntry(TableOf(st, ptr), i)
WriteEntry(st, ptr, i, e) ==
    [st EXCEPT !.mem[virtual2physical(ptr)] = PutEntry(@, i, e)]

(***************************************************************************)
(* VirtualMemoryMapper::map                                                *)
(***************************************************************************)
\* the entry of a new intermediate table
NewTableEntry(tablePtr) ==
    [frame |-> AddrMask(to_physical(tablePtr)), flags |-> {PTE_PRESENT}]

\* map, one level: the table of an absent entry is allocated, the flags of
\* the request are added to the entry; yields the pointer to the next table
\* "add new flags"
MapAddFlags(e, flags) == [e EXCEPT !.flags = @ \cup flags]
\* the entry is written, the walk goes on in the table it refers to
MapLevelSet(st, ptr, i, e) ==
    [st |-> WriteEntry(st, ptr, i, e), next |-> from_entry(e)]
\* the entry was absent: a is what alloc_new has yielded
MapLevelNew(a, ptr, i, flags) ==
    IF a.st.panicked
      THEN [st |-> a.st, next |-> ptr]
      ELSE MapLevelSet(a.st, ptr, i, MapAddFlags(NewTableEntry(a.ptr), flags))
MapLevelEntry(st, ptr, i, e, flags) ==
    IF Present(e)
      THEN MapLevelSet(st, ptr, i, MapAddFlags(e, flags))
      ELSE MapLevelNew(AllocZeroed(st), ptr, i, flags)
MapLevel(st, ptr, i, flags) ==
    IF st.panicked \/ Faults(st, ptr)
      THEN [st |-> [st EXCEPT !.panicked = TRUE], next |-> ptr]
      ELSE MapLevelEntry(st, ptr, i, EntryOf(st, ptr, i), flags)

\* the leaf entry map installs
MapLeafEntry(pfn, flags) ==
    [frame |-> AddrMask(pfn), flags |-> flags \cup {PTE_PRESENT}]

\* map, one turn of the loop: one 4 KiB page
\* Level 1: s2 is what level 2 has yielded, cur the frame to map
MapL1(s2, va, cur, flags) ==
    IF s2.st.panicked \/ Faults(s2.st, s2.next)
      THEN [s2.st EXCEPT !.panicked = TRUE]
      ELSE WriteEntry(s2.st, s2.next, get_l1(va), MapLeafEntry(cur, flags))
\* Level 2: s3 is what level 3 has yielded
MapL2(s3, va, cur, flags) ==
    MapL1(MapLevel(s3.st, s3.next, get_l2(va), flags), va, cur, flags)
\* Level 3: s4 is what level 4 has yielded
MapL3(s4, va, cur, flags) ==
    MapL2(MapLevel(s4.st, s4.next, get_l3(va), flags), va, cur, flags)
\* Level 4: a is the state with the frame to map, current_physical_address
MapL4(a, l4ptr, va, flags) ==
    MapL3(MapLevel(a.st, l4ptr, get_l4(va), flags), va, virtual2physical(a.ptr), flags)
MapPage(st, l4ptr, va, phys, flags) ==
    MapL4(IF phys.some THEN [st |-> st, ptr |-> physical2virtual(phys.pfn)]
                       ELSE AllocZeroed(st),
          l4ptr, va, flags)

RECURSIVE MapLoop(_, _, _, _, _, _)
MapLoop(st, l4ptr, va, phys, pages, flags) ==
    IF st.panicked \/ pages = 0
      THEN st
      ELSE MapLoop(MapPage(st, l4ptr, va, phys, flags), l4ptr, VaAdd(va, PAGE_4K),
                   IF phys.some THEN SomePhys(phys.pfn + 1) ELSE phys,
                   pages - 1, flags)

\* the asserts of map that are made before the first write
MapAsserts(vm, entry) ==
    LET r == AlignRange(entry.virtual_address, entry.size) IN
    /\ vm.is_user =>
          /\ PTE_USER \in entry.flags
          /\ get_l4(r.start) # KERNEL_L4_INDEX
          /\ VaLeq(VaAdd(r.start, r.pages * PAGE_4K), MAX_USER_VIRTUAL_ADDRESS)
    /\ entry.physical_address.some =>
          (entry.size + PAGE_4K - 1) \div PAGE_4K = r.pages
    /\ r.pages > 0

\* VirtualMemoryMapper::map
Map(st, vm, entry) ==
    LET r == AlignRange(entry.virtual_address, entry.size) IN
    IF ~MapAsserts(vm, entry)
      THEN [st EXCEPT !.panicked = TRUE]
      ELSE MapLoop(st, vm.page_map_l4, r.start, entry.physical_address,
                   r.pages, entry.flags)

\* VirtualMemoryMapEntry
MapEntry(va, phys, size, flags) ==
    [virtual_address |-> va, physical_address |-> phys, size |-> size, flags |-> flags]

(***************************************************************************)
(* VirtualMemoryMapper::is_address_mapped                                  *)
(***************************************************************************)
is_address_mapped(st, vm, addr) ==
    LET e4 == EntryOf(st, vm.page_map_l4, get_l4(addr))
        e3 == EntryOf(st, from_entry(e4), get_l3(addr))
        e2 == EntryOf(st, from_entry(e3), get_l2(addr))
        e1 == EntryOf(st, from_entry(e2), get_l1(addr))
    IN  IF ~Present(e4) THEN FALSE
        ELSE IF ~Present(e3) THEN FALSE
        ELSE IF ~Present(e2) THEN FALSE
        ELSE IF PTE_HUGE_PAGE \in e2.flags THEN TRUE
        ELSE Present(e1)

(***************************************************************************)
(* VirtualMemoryMapper::unmap                                              *)
(***************************************************************************)
\* the present bit is taken from the intermediate entry as well
UnmapStripFlags_Present(e, flags) == [e EXCEPT !.flags = @ \ (flags \cup {PTE_PRESENT})]

\* "remove flags": the flags of the request are taken from an intermediate entry
UnmapStripFlags(e, flags) == [e EXCEPT !.flags = @ \ flags]

\* unmap, one level: panics on an absent entry, strips the flags; yields the
\* pointer to the next table
UnmapLevelSet(st, ptr, i, e) ==
    [st |-> WriteEntry(st, ptr, i, e), next |-> from_entry(e)]
UnmapLevel(st, ptr, i, flags) ==
    IF st.panicked \/ Faults(st, ptr) \/ ~Present(EntryOf(st, ptr, i))
      THEN [st |-> [st EXCEPT !.panicked = TRUE], next |-> ptr]
      ELSE UnmapLevelSet(st, ptr, i, UnmapStripFlags(EntryOf(st, ptr, i), flags))

\* the leaf is never given back to the allocator
UnmapFreesLeaf_Never(is_allocated) == FALSE

\* whether unmap gives the frame of the leaf back to the allocator
UnmapFreesLeaf(is_allocated) == is_allocated

\* the leaf entry is left as it is
UnmappedLeaf_Keep(e) == e

\* "remove whole entry": the leaf entry after unmap
UnmappedLeaf(e) == ZeroEntry

\* unmap, one turn of the loop: one 4 KiB page
\* the leaf entry e1 of table ptr is removed; s1 is the state after the
\* frame was given back, if it was
UnmapLeafWrite(s1, ptr, va, e1) ==
    IF s1.panicked THEN s1
    ELSE WriteEntry(s1, ptr, get_l1(va), UnmappedLeaf(e1))
UnmapLeaf(st, ptr, va, e1, is_allocated) ==
    IF ~Present(e1)
      THEN [st EXCEPT !.panicked = TRUE]
      ELSE UnmapLeafWrite(IF UnmapFreesLeaf(is_allocated)
                            THEN FreePage(st, from_entry(e1))
                            ELSE st,
                          ptr, va, e1)
\* Level 1: s2 is what level 2 has yielded
UnmapL1(s2, va, is_allocated) ==
    IF s2.st.panicked \/ Faults(s2.st, s2.next)
      THEN [s2.st EXCEPT !.panicked = TRUE]
      ELSE UnmapLeaf(s2.st, s2.next, va, EntryOf(s2.st, s2.next, get_l1(va)),
                     is_allocated)
\* Level 2: s3 is what level 3 has yielded
UnmapL2(s3, va, flags, is_allocated) ==
    UnmapL1(UnmapLevel(s3.st, s3.next, get_l2(va), flags), va, is_allocated)
\* Level 3: s4 is what level 4 has yielded
UnmapL3(s4, va, flags, is_allocated) ==
    UnmapL2(UnmapLevel(s4.st, s4.next, get_l3(va), flags), va, flags, is_allocated)
UnmapPage(st, l4ptr, va, flags, is_allocated) ==
    UnmapL3(UnmapLevel(st, l4ptr, get_l4(va), flags), va, flags, is_allocated)

RECURSIVE UnmapLoop(_, _, _, _, _, _)
UnmapLoop(st, l4ptr, va, pages, flags, is_allocated) ==
    IF st.panicked \/ pages = 0
      THEN st
      ELSE UnmapLoop(UnmapPage(st, l4ptr, va, flags, is_allocated), l4ptr,
                     VaAdd(va, PAGE_4K), pages - 1, flags, is_allocated)

\* VirtualMemoryMapper::unmap
Unmap(st, vm, entry, is_allocated) ==
    LET r == AlignRange(entry.virtual_address, entry.size) IN
    IF entry.physical_address.some \/ r.pages = 0
      THEN [st EXCEPT !.panicked = TRUE]
      ELSE UnmapLoop(st, vm.page_map_l4, r.start, r.pages, entry.flags,
                     is_allocated)

(***************************************************************************)
(* new, clone_kernel_mem, add_process_specific_mappings                    *)
(***************************************************************************)
MkVm(l4ptr, user) == [page_map_l4 |-> l4ptr, is_user |-> user]

\* the indices clone_kernel_mem copies from the kernel slot's table
CloneCopyRange == 0..511

\* copies entries i of table src into table dst
RECURSIVE CopyEntries(_, _, _, _)
CopyEntries(st, src, dst, idxs) ==
    IF idxs = {} THEN st
    ELSE LET i == CHOOSE j \in idxs : \A k \in idxs : j <= k IN
         CopyEntries(WriteEntry(st, dst, i, EntryOf(st, src, i)), src, dst,
                     idxs \ {i})

\* the kernel slot of the new L4 table refers to the table of the source
CloneKernelSlotEntry_Shared(this_kernel_l4, new_kernel_l4) ==
    [frame |-> to_physical(this_kernel_l4), flags |-> {PTE_PRESENT, PTE_WRITABLE}]

\* the entry clone_kernel_mem installs in the kernel slot of the new L4 table
CloneKernelSlotEntry(this_kernel_l4, new_kernel_l4) ==
    [frame |-> to_physical(new_kernel_l4), flags |-> {PTE_PRESENT, PTE_WRITABLE}]

\* VirtualMemoryMapper::clone_kernel_mem; yields the state and the new mapper
clone_kernel_mem(st, vm) ==
    LET this_kernel_l4 == from_entry(EntryOf(st, vm.page_map_l4, KERNEL_L4_INDEX))
        a1 == AllocZeroed(st)
        a2 == AllocZeroed(a1.st)
        \* only the entries the source table has can be non-zero in the copy
        s3 == CopyEntries(a2.st, this_kernel_l4, a2.ptr,
                          CloneCopyRange \cap DOMAIN TableOf(a2.st, this_kernel_l4))
    IN  IF a2.st.panicked
          THEN [st |-> a2.st, vm |-> vm]
          ELSE [st |-> WriteEntry(s3, a1.ptr, KERNEL_L4_INDEX,
                                  CloneKernelSlotEntry(this_kernel_l4, a2.ptr)),
                vm |-> MkVm(a1.ptr, FALSE)]

\* memory_layout.rs: the kernel stack of a process
PROCESS_KERNEL_STACK_BASE == KERNEL_PROCESS_VIRTUAL_ADDRESS_START
ProcessKernelStackPages == 1

RECURSIVE ZeroEntries(_, _, _)
ZeroEntries(st, ptr, idxs) ==
    IF idxs = {} THEN st
    ELSE LET i == CHOOSE j \in idxs : TRUE IN
         ZeroEntries(WriteEntry(st, ptr, i, ZeroEntry), ptr, idxs \ {i})

\* VirtualMemoryMapper::add_process_specific_mappings; map runs with is_user
\* cleared, the mapper is a user mapper afterwards
add_process_specific_mappings(st, vm) ==
    LET this_kernel_l4 == from_entry(EntryOf(st, vm.page_map_l4, KERNEL_L4_INDEX))
        s1 == ZeroEntries(st, this_kernel_l4,
                 (KERNEL_L3_PROCESS_INDEX_START..KERNEL_L3_PROCESS_INDEX_END)
                     \cap DOMAIN TableOf(st, this_kernel_l4))
    IN  Map(s1, [vm EXCEPT !.is_user = FALSE],
            MapEntry(PROCESS_KERNEL_STACK_BASE, NoPhys,
                     ProcessKernelStackPages * PAGE_4K, {PTE_WRITABLE}))

(***************************************************************************)
(* do_for_ranges_enteries and unmap_process_memory                         *)
(***************************************************************************)
Min(a, b) == IF a <= b THEN a ELSE b

RECURSIVE SortedSeq(_)
SortedSeq(S) ==
    IF S = {} THEN <<>>
    ELSE LET m == CHOOSE j \in S : \A k \in S : j <= k IN <<m>> \o SortedSeq(S \ {m})

\* the indices of the entries of a table, ascending (iter_mut; the zero
\* entries are not present and are left out)
EntryIndices(st, ptr) == SortedSeq(DOMAIN TableOf(st, ptr))

\* the traversal takes the entry e of a table of a level: it reads the table
\* e refers to (levels 4, 3, 2) or hands e to the closure (level 0)
Taken(st, level, e) == [st EXCEPT !.via = @ \cup {[level |-> level, entry |-> e]}]

\* the closure called on entry i of a table
CallClosure(st, ptr, i) == Taken(st, 0, EntryOf(st, ptr, i))

\* the free_page closure of unmap_process_memory on entry i of a table
FreePageEntry(st0, ptr, i) ==
    LET st == CallClosure(st0, ptr, i)
        e == EntryOf(st, ptr, i) IN
    IF st.panicked \/ PTE_HUGE_PAGE \in e.flags
      THEN [st EXCEPT !.panicked = TRUE]
      ELSE LET s1 == FreePage(st, from_entry(e)) IN
           IF s1.panicked THEN s1 ELSE WriteEntry(s1, ptr, i, ZeroEntry)

\* the present entries of an L1 table are handed to the closure
RECURSIVE WalkL1(_, _, _)
WalkL1(st, ptr, idxs) ==
    IF st.panicked \/ idxs = <<>> THEN st
    ELSE LET i == Head(idxs) IN
         WalkL1(IF Present(EntryOf(st, ptr, i)) THEN FreePageEntry(st, ptr, i) ELSE st,
                ptr, Tail(idxs))

\* handle_2mb_pages on entry i of an L2 table
Handle2MbPages(st, ptr, i) ==
    LET e == EntryOf(st, ptr, i) IN
    IF PTE_HUGE_PAGE \in e.flags
      THEN FreePageEntry(st, ptr, i)
      ELSE IF Faults(st, from_entry(e))
             THEN [Taken(st, 2, e) EXCEPT !.panicked = TRUE]
             ELSE WalkL1(Taken(st, 2, e), from_entry(e), EntryIndices(st, from_entry(e)))

RECURSIVE WalkL2(_, _, _)
WalkL2(st, ptr, idxs) ==
    IF st.panicked \/ idxs = <<>> THEN st
    ELSE LET i == Head(idxs) IN
         WalkL2(IF Present(EntryOf(st, ptr, i)) THEN Handle2MbPages(st, ptr, i) ELSE st,
                ptr, Tail(idxs))

\* the present entries of an L3 table, among the indices idxs, are followed
RECURSIVE WalkL3(_, _, _)
WalkL3(st, ptr, idxs) ==
    IF st.panicked \/ idxs = <<>> THEN st
    ELSE LET i == Head(idxs)
             e == EntryOf(st, ptr, i)
         IN  WalkL3(IF ~Present(e) THEN st
                    ELSE IF Faults(st, from_entry(e))
                           THEN [Taken(st, 3, e) EXCEPT !.panicked = TRUE]
                           ELSE WalkL2(Taken(st, 3, e), from_entry(e),
                                       EntryIndices(st, from_entry(e))),
                    ptr, Tail(idxs))

\* The iterator chain of do_for_ranges_enteries.  The tables of the L4
\* entries l4_skip, l4_skip + 1, ... are chained into one sequence of L3
\* entries (no filter on the L4 entries), and skip(l3_skip).take(l3_take)
\* cuts that sequence: position pos of it is entry pos % 512 of the table
\* of L4 entry l4_skip + pos \div 512.  q counts the L4 entries from l4_skip.
RECURSIVE WalkL4(_, _, _, _, _, _)
WalkL4(st, l4ptr, l4_skip, q, l3_skip, lastPos) ==
    IF st.panicked \/ q * 512 > lastPos THEN st
    ELSE LET e    == EntryOf(st, l4ptr, l4_skip + q)
             ptr  == from_entry(e)
             idxs == {i \in DOMAIN TableOf(st, ptr) :
                         q * 512 + i >= l3_skip /\ q * 512 + i <= lastPos}
         IN  WalkL4(IF Faults(st, ptr) THEN [Taken(st, 4, e) EXCEPT !.panicked = TRUE]
                    ELSE WalkL3(Taken(st, 4, e), ptr, SortedSeq(idxs)),
                    l4ptr, l4_skip, q + 1, l3_skip, lastPos)

\* do_for_ranges_enteries with the free_page closure, for the inclusive
\* ranges l4_start..l4_end and l3_start..l3_end
do_for_ranges_enteries(st, vm, l4_start, l4_end, l3_start, l3_end) ==
    LET l4_skip == l4_start
        l4_take == Min(l4_end - l4_skip + 1, 512 - l4_skip)
        l3_skip == l3_start
        l3_take == l3_end - l3_skip + 1
        lastPos == Min(l4_take * 512, l3_skip + l3_take) - 1
    IN  WalkL4(st, vm.page_map_l4, l4_skip, 0, l3_skip, lastPos)

do_for_every_user_entry(st, vm) ==
    do_for_ranges_enteries(st, vm, 0, NUM_USER_L4_INDEXES - 1, 0, 511)

do_for_kernel_process_entry(st, vm) ==
    do_for_ranges_enteries(st, vm, KERNEL_L4_INDEX, KERNEL_L4_INDEX,
                           KERNEL_L3_PROCESS_INDEX_START, KERNEL_L3_PROCESS_INDEX_END)

\* VirtualMemoryMapper::unmap_process_memory
unmap_process_memory(st, vm) ==
    do_for_kernel_process_entry(do_for_every_user_entry(st, vm), vm)

(***************************************************************************)
(* The state after boot: init_kernel_vm                                    *)
(***************************************************************************)
\* what the first 8 bytes of physical memory (the real-mode interrupt
\* vectors) may read as when they are taken for a page table entry: an
\* entry that is not present, or a present one whose address lies outside RAM
LowMemImages ==
    {EmptyTable,
     [i \in {0} |-> [frame |-> 983055, flags |-> {PTE_PRESENT, PTE_WRITABLE}]]}

\* a frame of a device, outside RAM
DeviceFrame == 1043968

\* a frame above 4 GiB: physical address 0x1_0000_5000
HighFrame == 1048581

\* VirtualMemoryMapper::new_kernel_vm: low memory, .text/.rodata (read
\* only), .data and the rest of RAM, then the stack guard page is unmapped
new_kernel_vm(st) ==
    LET a  == AllocZeroed(st)
        vm == MkVm(a.ptr, FALSE)
        s1 == Map(a.st, vm, MapEntry(KERNEL_BASE, SomePhys(0), PAGE_4K, {PTE_WRITABLE}))
        s2 == Map(s1, vm, MapEntry(VaAdd(KERNEL_BASE, KernelTextFrame * PAGE_4K),
                                   SomePhys(KernelTextFrame),
                                   (KernelDataFrame - KernelTextFrame) * PAGE_4K, {}))
        s3 == Map(s2, vm, MapEntry(VaAdd(KERNEL_BASE, KernelDataFrame * PAGE_4K),
                                   SomePhys(KernelDataFrame),
                                   (NumFrames - KernelDataFrame) * PAGE_4K,
                                   {PTE_WRITABLE}))
        s4 == Unmap(s3, vm, MapEntry(VaAdd(KERNEL_BASE, KernelDataFrame * PAGE_4K),
                                     NoPhys, PAGE_4K, {}), FALSE)
    IN  [st |-> s4, vm |-> vm]

BootMemory(img) == [f \in Frames |-> IF f = 0 THEN img ELSE EmptyTable]
BootFree == [i \in 1..(NumFrames - AllocStart) |-> AllocStart + i - 1]

\* the record of an operation: follows tells that the operation before it
\* was a map of the same range on the same mapper that returned; fresh tells
\* that the range was unmapped before that map
LastOp(op, v, entry, is_allocated, follows, fresh, st) ==
    [op |-> op, vm |-> v, entry |-> entry, is_allocated |-> is_allocated,
     follows |-> follows, fresh |-> fresh, ok |-> ~st.panicked, freed |-> st.freed,
     via |-> st.via]

NoEntry == MapEntry(KERNEL_BASE, NoPhys, 0, {})

\* the mapper of the kernel is built over low memory that reads as img
InitVMFrom(k) ==
    /\ mem = k.st.mem
    /\ free = k.st.free
    /\ vms = <<k.vm>>
    /\ cr3 = to_physical(k.vm.page_map_l4)
    /\ last = LastOp("init", 1, NoEntry, FALSE, FALSE, FALSE, k.st)
    /\ nops = 0

InitVMOver(img) == InitVMFrom(new_kernel_vm(MkSt(BootMemory(img), BootFree)))

InitVM == \E img \in LowMemImages : InitVMOver(img)

(***************************************************************************)
(* What a walk of the tables sees                                          *)
(***************************************************************************)
\* the entries on the walk of the tables of vm for the address va
L4Entry(st, vm, va) == EntryOf(st, vm.page_map_l4, get_l4(va))
L3Entry(st, vm, va) == EntryOf(st, from_entry(L4Entry(st, vm, va)), get_l3(va))
L2Entry(st, vm, va) == EntryOf(st, from_entry(L3Entry(st, vm, va)), get_l2(va))
L1Entry(st, vm, va) == EntryOf(st, from_entry(L2Entry(st, vm, va)), get_l1(va))

UpperPresent(st, vm, va) ==
    /\ Present(L4Entry(st, vm, va))
    /\ Present(L3Entry(st, vm, va))
    /\ Present(L2Entry(st, vm, va))
WalkPresent(st, vm, va) == UpperPresent(st, vm, va) /\ Present(L1Entry(st, vm, va))

\* the pages of the range of a request, in the order map and unmap take them
RangePages(entry) ==
    LET r == AlignRange(entry.virtual_address, entry.size) IN
    [i \in 1..r.pages |-> VaAdd(r.start, (i - 1) * PAGE_4K)]

\* a request with page-aligned address and size
Aligned(entry) ==
    /\ entry.virtual_address.off = 0
    /\ entry.size > 0
    /\ entry.size % PAGE_4K = 0

\* the first and the last byte of every page of an aligned request
RangeOffsets(entry) ==
    {i * PAGE_4K + o : i \in 0..((entry.size \div PAGE_4K) - 1), o \in {0, PAGE_4K - 1}}
RangeMapped(st, vm, entry) ==
    \A k \in RangeOffsets(entry) :
        is_address_mapped(st, vm, VaAdd(entry.virtual_address, k))
RangeUnmapped(st, vm, entry) ==
    \A k \in RangeOffsets(entry) :
        ~is_address_mapped(st, vm, VaAdd(entry.virtual_address, k))

\* the frames of the tables that the present entries of the tables in fs refer to
TablesUnder(st, fs) ==
    UNION { { AddrMask(st.mem[f][i].frame) :
                i \in { j \in DOMAIN st.mem[f] :
                          /\ Present(st.mem[f][j])
                          /\ PTE_HUGE_PAGE \notin st.mem[f][j].flags } } :
            f \in fs \cap DOMAIN st.mem }

\* the L3, L2 and L1 tables reachable from a set of L3 tables
TablesFrom(st, l3s) ==
    LET l2s == TablesUnder(st, l3s)
        l1s == TablesUnder(st, l2s)
    IN  (l3s \cup l2s \cup l1s) \cap DOMAIN st.mem

\* every table of a mapper
TableFrames(st, vm) ==
    {to_physical(vm.page_map_l4)}
        \cup TablesFrom(st, TablesUnder(st, {to_physical(vm.page_map_l4)}))

\* the kernel slot of a mapper: L4 entry 0x1FF and the tables reachable from it
KernelSlotEntry(st, vm) == EntryOf(st, vm.page_map_l4, KERNEL_L4_INDEX)
KernelTables(st, vm) ==
    IF Present(KernelSlotEntry(st, vm))
      THEN TablesFrom(st, {AddrMask(KernelSlotEntry(st, vm).frame)})
      ELSE {}
KernelView(st, vm) ==
    [entry  |-> KernelSlotEntry(st, vm),
     tables |-> [f \in KernelTables(st, vm) |-> st.mem[f]]]

\* the present leaf entries below the L4 indices l4s and the L3 indices l3s:
\* the frame of the L1 table, the index in it, and the entry
LeavesIn(st, f1) ==
    { [table |-> f1, index |-> i, entry |-> st.mem[f1][i]] :
        i \in { j \in DOMAIN st.mem[f1] : Present(st.mem[f1][j]) } }
Leaves(st, vm, l4s, l3s) ==
    LET t4  == TableOf(st, vm.page_map_l4)
        f3s == { AddrMask(t4[i].frame) : i \in { j \in DOMAIN t4 \cap l4s : Present(t4[j]) } }
        f2s == UNION { { AddrMask(st.mem[f][i].frame) :
                           i \in { j \in DOMAIN st.mem[f] \cap l3s : Present(st.mem[f][j]) } } :
                       f \in f3s \cap DOMAIN st.mem }
        f1s == TablesUnder(st, f2s) \cap DOMAIN st.mem
    IN  UNION { LeavesIn(st, f1) : f1 \in f1s }

SeqRange(q) == { q[i] : i \in DOMAIN q }

(***************************************************************************)
(* The operations on the mappers                                           *)
(***************************************************************************)
UserBase == Va(0, 0, 4, 0, 0, 0)

\* the requests of the callers of map and unmap
Requests ==
    { MapEntry(UserBase, NoPhys, PAGE_4K, {PTE_USER, PTE_WRITABLE}),
      MapEntry(VaAdd(UserBase, PAGE_4K), NoPhys, PAGE_4K, {PTE_USER, PTE_WRITABLE}),
      MapEntry(UserBase, NoPhys, 2 * PAGE_4K, {PTE_USER}),
      MapEntry(Va(0, 1, 0, 0, 0, 2048), NoPhys, PAGE_4K, {PTE_USER, PTE_WRITABLE}),
      MapEntry(Va(0, 510, 511, 511, 511, 0), NoPhys, 2 * PAGE_4K,
               {PTE_USER, PTE_WRITABLE}),
      MapEntry(Va(65535, 511, 511, 0, 0, 0), SomePhys(DeviceFrame), PAGE_4K,
               {PTE_WRITABLE}),
      MapEntry(Va(65535, 511, 511, 0, 1, 0), SomePhys(HighFrame), PAGE_4K,
               {PTE_WRITABLE}) }

CanStep == last.ok /\ nops < MaxOps
UserVms == 2..Len(vms)

\* the CPU that runs the mapper operations: the first one
BootCpu == CHOOSE c \in Cpus : \A d \in Cpus : c <= d

\* What an operation leaves in the CPU state.  An operation that takes the
\* lock of the kernel's manager, or calls push_cli and pop_cli itself, leaves
\* the snapshot of the interrupt flag behind; a panic inside it leaves n_cli
\* raised, and the panic handler clears the interrupt flag.
CpuEffect(st, cli) ==
    /\ old_interrupt_enable' =
          IF cli THEN [old_interrupt_enable EXCEPT ![CpuSlot(BootCpu)] = iflag[BootCpu]]
                 ELSE old_interrupt_enable
    /\ n_cli' = IF cli /\ st.panicked
                  THEN [n_cli EXCEPT ![CpuSlot(BootCpu)] = @ + 1] ELSE n_cli
    /\ iflag' = IF st.panicked THEN [iflag EXCEPT ![BootCpu] = FALSE] ELSE iflag
    /\ pc' = IF st.panicked THEN [pc EXCEPT ![BootCpu] = "panicked"] ELSE pc
    /\ UNCHANGED <<locked, owner_cpu, target, held, if_before>>

Follows(v, entry) ==
    /\ last.op = "map"
    /\ last.ok
    /\ last.vm = v
    /\ [last.entry EXCEPT !.physical_address = NoPhys] = entry

Commit(op, v, entry, is_allocated, st, cli) ==
    /\ mem' = st.mem
    /\ free' = st.free
    /\ last' = LastOp(op, v, entry, is_allocated,
                      op = "unmap" /\ Follows(v, entry),
                      \/ op = "map" /\ v \in DOMAIN vms /\ Aligned(entry)
                            /\ RangeUnmapped(MkSt(mem, free), vms[v], entry)
                      \/ op = "unmap" /\ Follows(v, entry) /\ last.fresh,
                      st)
    /\ nops' = nops + 1
    /\ CpuEffect(st, cli)
    /\ UNCHANGED ioVars

\* map called on the mapper of a process
VmMap(v, entry) ==
    /\ CanStep
    /\ Commit("map", v, entry, FALSE, Map(MkSt(mem, free), vms[v], entry), FALSE)
    /\ UNCHANGED <<vms, cr3>>

\* map_kernel
VmMapKernel(entry) ==
    /\ CanStep
    /\ LET st == MkSt(mem, free) IN
       Commit("map", 1, entry, FALSE,
              IF VaLeq(KERNEL_BASE, entry.virtual_address)
                THEN Map(st, vms[1], entry)
                ELSE [st EXCEPT !.panicked = TRUE],
              VaLeq(KERNEL_BASE, entry.virtual_address))
    /\ UNCHANGED <<vms, cr3>>

\* the callers of unmap pass is_allocated = true only for pages that map
\* allocated (physical_address: None)
UnmapArgs(entry) == IF entry.physical_address.some THEN {FALSE} ELSE {TRUE, FALSE}
UnmapEntry(entry) == [entry EXCEPT !.physical_address = NoPhys]

\* unmap called on the mapper of a process
VmUnmap(v, entry, is_allocated) ==
    /\ CanStep
    /\ Commit("unmap", v, UnmapEntry(entry), is_allocated,
              Unmap(MkSt(mem, free), vms[v], UnmapEntry(entry), is_allocated), FALSE)
    /\ UNCHANGED <<vms, cr3>>

\* unmap_kernel
VmUnmapKernel(entry, is_allocated) ==
    /\ CanStep
    /\ LET st == MkSt(mem, free) IN
       Commit("unmap", 1, UnmapEntry(entry), is_allocated,
              IF VaLeq(KERNEL_BASE, entry.virtual_address)
                THEN Unmap(st, vms[1], UnmapEntry(entry), is_allocated)
                ELSE [st EXCEPT !.panicked = TRUE],
              VaLeq(KERNEL_BASE, entry.virtual_address))
    /\ UNCHANGED <<vms, cr3>>

\* VirtualMemoryMapper::get_current_vm
get_current_vm ==
    MkVm(physical2virtual(cr3), physical2virtual(cr3) # vms[1].page_map_l4)

\* clone_current_vm_as_user
VmCloneCurrentVmAsUser ==
    /\ CanStep
    /\ Len(vms) < MaxVms
    /\ LET c == clone_kernel_mem(MkSt(mem, free), get_current_vm) IN
       /\ Commit("clone", Len(vms) + 1, NoEntry, FALSE, c.st, TRUE)
       /\ vms' = IF c.st.panicked THEN vms
                 ELSE Append(vms, [c.vm EXCEPT !.is_user = TRUE])
    /\ UNCHANGED cr3

\* add_process_specific_mappings
VmAddProcessSpecificMappings(v) ==
    /\ CanStep
    /\ Commit("add_process", v, NoEntry, FALSE,
              add_process_specific_mappings(MkSt(mem, free), vms[v]), FALSE)
    /\ vms' = [vms EXCEPT ![v].is_user = TRUE]
    /\ UNCHANGED cr3

\* unmap_process_memory
VmUnmapProcessMemory(v) ==
    /\ CanStep
    /\ Commit("unmap_process_memory", v, NoEntry, FALSE,
              unmap_process_memory(MkSt(mem, free), vms[v]), FALSE)
    /\ UNCHANGED <<vms, cr3>>

\* switch_to_this, and switch_to_kernel for the mapper of the kernel
VmSwitchToThis(v) ==
    /\ CanStep
    /\ cr3' = to_physical(vms[v].page_map_l4)
    /\ Commit("switch", v, NoEntry, FALSE, MkSt(mem, free), v = 1)
    /\ UNCHANGED vms

NextVM ==
    \/ \E v \in UserVms, e \in Requests : VmMap(v, e)
    \/ \E e \in Requests : VmMapKernel(e)
    \/ \E v \in UserVms, e \in Requests, a \in BOOLEAN :
          a \in UnmapArgs(e) /\ VmUnmap(v, e, a)
    \/ \E e \in Requests, a \in BOOLEAN : a \in UnmapArgs(e) /\ VmUnmapKernel(e, a)
    \/ VmCloneCurrentVmAsUser
    \/ \E v \in UserVms : VmAddProcessSpecificMappings(v)
    \/ \E v \in UserVms : VmUnmapProcessMemory(v)
    \/ \E v \in 1..Len(vms) : VmSwitchToThis(v)

\* no volume is mounted and nobody reads
NoVolume == [mounted |-> FALSE]
NoReader == [open |-> FALSE]
NoCall == [op |-> "none"]

InitFsIdle ==
    /\ volume = NoVolume
    /\ inodes = {}
    /\ reader = NoReader
    /\ fsres = NoCall

\* no parser runs
NoParser == [code |-> <<>>, pos |-> 0]

InitAmlIdle ==
    /\ parser = NoParser
    /\ amlres = NoCall

\* no CPU holds a lock; the interrupt flags of the CPUs are fl
InitCpus(fl) ==
    /\ locked = [m \in Mutexes |-> FALSE]
    /\ owner_cpu = [m \in Mutexes |-> -1]
    /\ n_cli = [s \in CpuSlots |-> 0]
    /\ old_interrupt_enable = [s \in CpuSlots |-> FALSE]
    /\ iflag = fl
    /\ pc = [c \in Cpus |-> "idle"]
    /\ target = [c \in Cpus |-> 1]
    /\ held = [c \in Cpus |-> {}]
    /\ if_before = fl

InitMutex == \E fl \in [Cpus -> BOOLEAN] : InitCpus(fl)

NextMutex ==
    \/ \E c \in Cpus, m \in Mutexes : MutexLock(c, m) /\ UNCHANGED <<vmVars, ioVars>>
    \/ \E c \in Cpus : MutexLockCheckOwner(c) /\ UNCHANGED <<vmVars, ioVars>>
    \/ \E c \in Cpus : MutexLockSpin(c) /\ UNCHANGED <<vmVars, ioVars>>
    \/ \E c \in Cpus : MutexLockStoreOwner(c) /\ UNCHANGED <<vmVars, ioVars>>
    \/ \E c \in Cpus, m \in Mutexes : GuardDropClearOwner(c, m) /\ UNCHANGED <<vmVars, ioVars>>
    \/ \E c \in Cpus : GuardDropUnlock(c) /\ UNCHANGED <<vmVars, ioVars>>
    \/ \E c \in Cpus : PopCli(c) /\ UNCHANGED <<vmVars, ioVars>>

\* the CPUs lock and unlock the mutexes; the mappers are left alone
InitSpecMutex == InitMutex /\ InitVMOver(EmptyTable) /\ InitFsIdle /\ InitAmlIdle

SpecMutex == InitSpecMutex /\ [][NextMutex]_vars

\* the boot CPU, with its interrupts enabled, works on the mappers; no CPU
\* takes a lock of its own
InitSpecVM == InitCpus([c \in Cpus |-> TRUE]) /\ InitVM /\ InitFsIdle /\ InitAmlIdle

SpecVM == InitSpecVM /\ [][NextVM]_vars

(***************************************************************************)
(* Properties of the spin mutex                                            *)
(***************************************************************************)
\* the CPUs that hold a guard of m
Holders(m) == {c \in Cpus : m \in held[c]}

\* C1: for one Mutex shared by several CPUs that lock it and drop their guards
\* in any interleaving, at most one CPU is between the return of lock() and
\* the unlock of its guard's drop.
C1_MutualExclusion == \A m \in Mutexes : Cardinality(Holders(m)) <= 1

\* one CPU holds the guard while another one busy-waits in lock() of the same Mutex
C1_Witness ==
    \E c1 \in Cpus, c2 \in Cpus :
        /\ c1 # c2
        /\ pc[c2] = "spin"
        /\ target[c2] \in held[c1]

\* C2: a CPU that holds at least one guard has its interrupts disabled, and a
\* CPU that has dropped its last guard has them enabled exactly if they were
\* enabled before its first acquisition.
C2_InterruptDiscipline ==
    \A c \in Cpus :
        /\ held[c] # {} => ~iflag[c]
        /\ (pc[c] = "idle" /\ held[c] = {}) => iflag[c] = if_before[c]

\* C3: lock() of a CPU that already holds a guard of the same Mutex panics:
\* the step the CPU takes after push_cli is the panic, never the busy wait.
C3_RelockPanics ==
    [][\A c \in Cpus :
          (pc[c] = "check_owner" /\ target[c] \in held[c] /\ pc'[c] # pc[c])
              => pc'[c] = "panicked"]_vars

\* a CPU has panicked in lock() of a Mutex whose guard it holds
C3_Witness ==
    \E c \in Cpus : pc[c] = "panicked" /\ target[c] \in held[c]

(***************************************************************************)
(* Properties of the mapper                                                *)
(***************************************************************************)
\* the memory and the free list before and after a step
Cur == MkSt(mem, free)
Nxt == MkSt(mem', free')

\* the mapper and the request of the operation of a step
StepVm == vms[last'.vm]
StepEntry == last'.entry
StepEnd == VaAdd(StepEntry.virtual_address, StepEntry.size)

\* a map of an aligned range that was unmapped before returns
FreshMapStep == last'.op = "map" /\ last'.ok /\ last'.fresh
\* an unmap of the range of the map right before it returns
RoundTripStep == last'.op = "unmap" /\ last'.ok /\ last'.follows /\ last'.fresh

\* C4, as stated: after map of an aligned range that was unmapped, every
\* address of the range is mapped and the address right after the range is
\* not; after the unmap of the same range no address of the range is mapped.
C4_RoundTripEndUnmapped ==
    [][/\ FreshMapStep =>
            /\ RangeMapped(Nxt, StepVm, StepEntry)
            /\ ~is_address_mapped(Nxt, StepVm, StepEnd)
       /\ RoundTripStep => RangeUnmapped(Nxt, StepVm, StepEntry)]_vars

\* C4, amended: after map of an aligned range that was unmapped, every
\* address of the range is mapped, and the address right after the range is
\* mapped exactly if it was mapped before the call; after the unmap of the
\* same range no address of the range is mapped.
C4_RoundTrip ==
    [][/\ FreshMapStep =>
            /\ RangeMapped(Nxt, StepVm, StepEntry)
            /\ is_address_mapped(Nxt, StepVm, StepEnd)
                  <=> is_address_mapped(Cur, StepVm, StepEnd)
       /\ RoundTripStep => RangeUnmapped(Nxt, StepVm, StepEntry)]_vars

\* a range has been mapped and unmapped again while the page right after it
\* is mapped
C4_Witness ==
    /\ last.op = "unmap" /\ last.ok /\ last.follows /\ last.fresh
    /\ RangeUnmapped(MkSt(mem, free), vms[last.vm], last.entry)
    /\ is_address_mapped(MkSt(mem, free), vms[last.vm],
                         VaAdd(last.entry.virtual_address, last.entry.size))

\* the frames of the leaves of the pages of a request
LeafFrames(st, vm, entry) ==
    [i \in DOMAIN RangePages(entry) |-> L1Entry(st, vm, RangePages(entry)[i]).frame]

\* C5: a map without physical address that returns has installed, for its n
\* pages, n pairwise distinct leaf frames that the allocator held before and
\* holds no more; the unmap of the same range right after it returns, and
\* gives exactly those frames back, each once, with is_allocated = true, and
\* none with is_allocated = false.
C5_AllocatedLeaves ==
    [][/\ (last'.op = "map" /\ last'.ok /\ ~StepEntry.physical_address.some) =>
            LET lf == LeafFrames(Nxt, StepVm, StepEntry) IN
            /\ \A i \in DOMAIN lf :
                  /\ Present(L1Entry(Nxt, StepVm, RangePages(StepEntry)[i]))
                  /\ lf[i] \in SeqRange(free)
                  /\ lf[i] \notin SeqRange(free')
            /\ \A i \in DOMAIN lf, j \in DOMAIN lf : i # j => lf[i] # lf[j]
       /\ (last'.op = "unmap" /\ last'.follows /\ ~last.entry.physical_address.some) =>
            /\ last'.ok
            /\ last'.freed = IF last'.is_allocated
                               THEN LeafFrames(Cur, StepVm, StepEntry)
                               ELSE <<>>
            /\ SeqRange(last'.freed) \subseteq SeqRange(free')]_vars

\* two pages were mapped with allocated frames and unmap has given both back
C5_Witness ==
    /\ last.op = "unmap" /\ last.ok /\ last.follows /\ last.is_allocated
    /\ Len(last.freed) = 2
    /\ SeqRange(last.freed) \subseteq SeqRange(free)

\* C6: a map on a mapper with is_user = true changes neither L4 entry 0x1FF
\* nor a table reachable from it.
C6_UserMapKeepsKernelSlot ==
    [][(last'.op = "map" /\ last'.vm \in UserVms /\ StepVm.is_user) =>
          KernelView(Nxt, StepVm) = KernelView(Cur, StepVm)]_vars

\* C7: after unmap_process_memory has returned, every L4 entry below 0x1FF
\* of the mapper is zero, and so is every entry 0..0x1FD of its kernel L3 table.
C7_TeardownZeroesEntries ==
    (last.op = "unmap_process_memory" /\ last.ok) =>
        LET st == MkSt(mem, free)
            vm == vms[last.vm]
        IN  /\ \A i \in 0..(KERNEL_L4_INDEX - 1) :
                  EntryOf(st, vm.page_map_l4, i) = ZeroEntry
            /\ \A j \in KERNEL_L3_PROCESS_INDEX_START..KERNEL_L3_PROCESS_INDEX_END :
                  EntryOf(st, from_entry(KernelSlotEntry(st, vm)), j) = ZeroEntry

UserL4Indexes == 0..(KERNEL_L4_INDEX - 1)
ProcessL3Indexes == KERNEL_L3_PROCESS_INDEX_START..KERNEL_L3_PROCESS_INDEX_END
GlobalL3Indexes == KERNEL_L3_INDEX_START..511

\* C8: unmap_process_memory frees and zeroes every present leaf reachable
\* from the L4 indices 0..0x1FE and from the kernel L3 indices 0..0x1FD, and
\* leaves every leaf reachable from the kernel L3 indices 0x1FE..0x1FF alone.
C8_TeardownFreesLeaves ==
    [][(last'.op = "unmap_process_memory" /\ last'.ok) =>
          /\ \A lf \in Leaves(Cur, StepVm, UserL4Indexes, 0..511)
                        \cup Leaves(Cur, StepVm, {KERNEL_L4_INDEX}, ProcessL3Indexes) :
                /\ AddrMask(lf.entry.frame) \in SeqRange(last'.freed)
                /\ GetEntry(mem'[lf.table], lf.index) = ZeroEntry
          /\ \A lf \in Leaves(Cur, StepVm, {KERNEL_L4_INDEX}, GlobalL3Indexes) :
                GetEntry(mem'[lf.table], lf.index) = lf.entry]_vars

\* C9: unmap panics when an entry on the walk of one of its pages is absent
\* at any level; the L4, L3 and L2 entries on the walk of a page it was
\* called for stay present, and no frame of a table is freed.
C9_UnmapKeepsTables ==
    [][last'.op = "unmap" =>
          LET pg == RangePages(StepEntry) IN
          /\ (\E i \in DOMAIN pg : ~WalkPresent(Cur, StepVm, pg[i])) => ~last'.ok
          /\ \A i \in DOMAIN pg :
                WalkPresent(Cur, StepVm, pg[i]) => UpperPresent(Nxt, StepVm, pg[i])
          /\ SeqRange(last'.freed) \cap TableFrames(Cur, StepVm) = {}]_vars

\* unmap of two pages has unmapped and freed the first one and panicked at
\* the second one, whose leaf entry was absent; the tables are still there
C9_Witness ==
    /\ last.op = "unmap" /\ ~last.ok
    /\ Len(last.freed) = 1
    /\ Len(RangePages(last.entry)) = 2
    /\ UpperPresent(MkSt(mem, free), vms[last.vm], RangePages(last.entry)[1])
    /\ ~WalkPresent(MkSt(mem, free), vms[last.vm], RangePages(last.entry)[1])

\* the tables of a mapper, with what they hold
TablesView(st, vm) == [f \in TableFrames(st, vm) |-> st.mem[f]]

\* the frame of the kernel L3 table of a mapper
KernelL3Frame(st, vm) == AddrMask(KernelSlotEntry(st, vm).frame)

\* clone_kernel_mem has returned a new mapper
CloneStep == last'.op = "clone" /\ last'.ok
NewVm == vms'[last'.vm]
UserEntriesZero(st, vm) ==
    \A i \in UserL4Indexes : EntryOf(st, vm.page_map_l4, i) = ZeroEntry
SourceUnchanged ==
    [f \in TableFrames(Cur, get_current_vm) |-> mem'[f]] = TablesView(Cur, get_current_vm)

\* C10, as stated: the L4 table of the mapper that clone_kernel_mem returns
\* has zero entries below 0x1FF, its entry 0x1FF refers to the L3 table that
\* entry 0x1FF of the source refers to, and the tables of the source are as
\* they were.
C10_CloneSharesL3Table ==
    [][CloneStep =>
          /\ UserEntriesZero(Nxt, NewVm)
          /\ Present(KernelSlotEntry(Nxt, NewVm))
          /\ KernelL3Frame(Nxt, NewVm) = KernelL3Frame(Cur, get_current_vm)
          /\ SourceUnchanged]_vars

\* C10, amended: the L4 table of the mapper that clone_kernel_mem returns
\* has zero entries below 0x1FF, its entry 0x1FF refers to a newly allocated
\* L3 table that holds a copy of all 512 entries of the kernel L3 table of
\* the source, so that the two mappers share the L2 tables and not the L3
\* table, and the tables of the source are as they were.
C10_CloneCopiesL3Table ==
    [][CloneStep =>
          /\ UserEntriesZero(Nxt, NewVm)
          /\ Present(KernelSlotEntry(Nxt, NewVm))
          /\ KernelL3Frame(Nxt, NewVm) \in SeqRange(free)
          /\ KernelL3Frame(Nxt, NewVm) # KernelL3Frame(Cur, get_current_vm)
          /\ mem'[KernelL3Frame(Nxt, NewVm)] = mem[KernelL3Frame(Cur, get_current_vm)]
          /\ SourceUnchanged]_vars

\* a mapper was cloned from the mapper of a process: its kernel L3 table
\* holds the entry of the kernel stack of that process
C10_Witness ==
    /\ last.op = "clone" /\ last.ok
    /\ cr3 # to_physical(vms[1].page_map_l4)
    /\ Present(EntryOf(MkSt(mem, free),
                       from_entry(KernelSlotEntry(MkSt(mem, free), vms[last.vm])),
                       get_l3(PROCESS_KERNEL_STACK_BASE)))

(***************************************************************************)
(* kernel/src/fs/fat.rs: the boot sector and the file allocation table     *)
(*                                                                         *)
(* Bytes, UTF-16 units and characters are numbers.  A sequence of bytes is *)
(* a sequence of the model, so the byte at offset i is element i + 1.      *)
(* Bit operations are written with integer arithmetic: x >> k is           *)
(* x \div 2^k, x & (2^k - 1) is x % 2^k, and an OR of fields that share no *)
(* bit is their sum.                                                       *)
(***************************************************************************)
DIRECTORY_ENTRY_SIZE == 32

FatTypes == {"Fat12", "Fat16", "Fat32"}

\* FatBootSector: the fields of the boot sector the reader uses
bytes_per_sector(fs) == fs.bytes_per_sector
sectors_per_cluster(fs) == fs.sectors_per_cluster
bytes_per_cluster(fs) == fs.sectors_per_cluster * fs.bytes_per_sector
fat_size_in_sectors(fs) == fs.fat_size
fat_start_sector(fs) == fs.reserved_sectors_count

root_dir_sectors(fs) ==
    ((fs.root_entry_count * DIRECTORY_ENTRY_SIZE) + (fs.bytes_per_sector - 1))
        \div fs.bytes_per_sector

root_dir_start_sector(fs) ==
    fat_start_sector(fs) + fs.number_of_fats * fat_size_in_sectors(fs)

data_start_sector(fs) == root_dir_start_sector(fs) + root_dir_sectors(fs)

\* cluster - 2 on u32 goes below zero: a panic in a build with overflow
\* checks, a wrapped value in a build without
Underflows(fs, cluster) == cluster < 2

\* FatFilesystem::first_sector_of_cluster.  In a build without overflow checks
\* the subtraction, the product and the sum wrap, and the sector of a cluster
\* below 2 is data_start_sector - (2 - cluster) * sectors_per_cluster modulo
\* 2^32; the volumes of the model keep that difference at zero or above.
first_sector_of_cluster(fs, cluster) ==
    data_start_sector(fs) + (cluster - 2) * sectors_per_cluster(fs)

\* FatEntry
FatFree == [kind |-> "Free", cluster |-> 0]
FatNext(m) == [kind |-> "Next", cluster |-> m]
FatEndOfChain == [kind |-> "EndOfChain", cluster |-> 0]
FatBad == [kind |-> "Bad", cluster |-> 0]
FatReserved == [kind |-> "Reserved", cluster |-> 0]
\* the assert of read_fat_entry, or an index past the end of the FAT
FatPanic == [kind |-> "Panic", cluster |-> 0]

\* the bad-cluster mark of a FAT type: 0xFF7, 0xFFF7, 0x0FFF_FFF7
FatBadMark(ty) ==
    CASE ty = "Fat12" -> 4087
      [] ty = "Fat16" -> 65527
      [] ty = "Fat32" -> 268435447

\* the range of from_u32 that is a link to the next cluster, with a lower
\* end of 1 in place of 2
FatIsLink_FromOne(ty, entry) == 1 <= entry /\ entry <= FatBadMark(ty) - 1

\* (0x002..=0xFF6).contains(&entry), and the same for the wider types
FatIsLink(ty, entry) == 2 <= entry /\ entry <= FatBadMark(ty) - 1

\* FatEntry::from_u32
from_u32(ty, entry) ==
    IF entry = 0 THEN FatFree
    ELSE IF entry >= FatBadMark(ty) + 1 THEN FatEndOfChain
    ELSE IF entry = FatBadMark(ty) THEN FatBad
    ELSE IF FatIsLink(ty, entry) THEN FatNext(entry)
    ELSE FatReserved

\* the byte of the cached FAT at an offset
FatByte(fs, off) == fs.fat[off + 1]

FatOffset(ty, entry) ==
    CASE ty = "Fat12" -> (entry * 3) \div 2
      [] ty = "Fat16" -> entry * 2
      [] ty = "Fat32" -> entry * 4

\* the FAT12 value of an odd entry with the nibbles of the two bytes swapped
Fat12Odd_LowNibble(byte1, byte2) == (byte2 * 16) + (byte1 % 16)

\* ((byte2 as u32) << 4) | ((byte1 as u32) >> 4)
Fat12Odd(byte1, byte2) == (byte2 * 16) + (byte1 \div 16)

\* (((byte2 as u32) & 0xF) << 8) | (byte1 as u32)
Fat12Even(byte1, byte2) == ((byte2 % 16) * 256) + byte1

\* four bytes read for an entry of every FAT type
FatWidth_Four(ty) == 4

\* the bytes the decoder of a FAT type reads at an offset
FatWidth(ty) == IF ty = "Fat32" THEN 4 ELSE 2

\* the raw value read_fat_entry reads for an entry whose bytes are in the FAT
FatRaw(fs, entry, off) ==
    CASE fs.ty = "Fat12" ->
            IF entry % 2 = 1 THEN Fat12Odd(FatByte(fs, off), FatByte(fs, off + 1))
                             ELSE Fat12Even(FatByte(fs, off), FatByte(fs, off + 1))
      [] fs.ty = "Fat16" -> FatByte(fs, off) + (FatByte(fs, off + 1) * 256)
      [] fs.ty = "Fat32" ->
            FatByte(fs, off) + (FatByte(fs, off + 1) * 256)
               + (FatByte(fs, off + 2) * 65536)
               + ((FatByte(fs, off + 3) % 16) * 16777216)

\* FatFilesystem::read_fat_entry.  The assert stops an offset past the end of
\* the FAT; the FAT is a whole number of sectors, so the bytes of a FAT16 or
\* FAT32 entry that starts inside it are inside it, and a FAT12 entry whose
\* second byte is outside it stops at the index check.
read_fat_entry(fs, entry) ==
    IF FatOffset(fs.ty, entry) + FatWidth(fs.ty) > Len(fs.fat)
      THEN FatPanic
      ELSE from_u32(fs.ty, FatRaw(fs, entry, FatOffset(fs.ty, entry)))

(***************************************************************************)
(* kernel/src/fs/fat.rs: directories                                       *)
(*                                                                         *)
(* A sector of a directory is the sequence of its 32-byte entries.  An     *)
(* entry keeps the fields the reader decodes: name is bytes 0..10, attr is *)
(* byte 11 as the set of its bits, units are the 13 UTF-16 units of a long *)
(* name slot (bytes 1..10, 14..25, 28..31), cluster_hi, cluster_lo and     *)
(* size are the little-endian fields at offsets 20, 26 and 28.             *)
(***************************************************************************)
READ_ONLY == "READ_ONLY"
HIDDEN == "HIDDEN"
SYSTEM == "SYSTEM"
VOLUME_ID == "VOLUME_ID"
DIRECTORY == "DIRECTORY"
ARCHIVE == "ARCHIVE"
LONG_NAME == {READ_ONLY, HIDDEN, SYSTEM, VOLUME_ID}

\* file_attribute_from_fat
file_attribute_from_fat(attributes) ==
    [read_only |-> READ_ONLY \in attributes,
     hidden |-> HIDDEN \in attributes,
     system |-> SYSTEM \in attributes,
     volume_label |-> VOLUME_ID \in attributes,
     directory |-> DIRECTORY \in attributes,
     archive |-> ARCHIVE \in attributes]

\* INode::new_file, INode::is_dir
new_file(name, attributes, start_cluster, size) ==
    [name |-> name, attributes |-> attributes,
     start_cluster |-> start_cluster, size |-> size]

is_dir(inode) == inode.attributes.directory

\* 0x20, the padding of a short name; '.' and '/'
SPACE == 32
DOT == 46
SLASH == 47
\* entry[0] of a deleted entry
DELETED == 229
\* 0x40, the flag of the last slot of a long name; the ordinal is below it
LAST_LONG_ENTRY == 64

\* Directory::RootFat12_16 and Directory::Normal
RootFat12_16(start_sector, size_in_sectors) ==
    [root |-> TRUE, start_sector |-> start_sector,
     size_in_sectors |-> size_in_sectors, start_cluster |-> 0]

Normal(inode) ==
    [root |-> FALSE, start_sector |-> 0, size_in_sectors |-> 0,
     start_cluster |-> inode.start_cluster]

\* a sector the disk holds nothing in reads as zeroes
ZeroDirEntry ==
    [name |-> [i \in 1..11 |-> 0], attr |-> {}, units |-> <<>>,
     cluster_hi |-> 0, cluster_lo |-> 0, size |-> 0]

\* FatFilesystem::read_sectors of one sector, on a device that answers every
\* read: the sector start_lba + start_sector of the device
read_sectors(fs, start_sector) ==
    IF fs.start_lba + start_sector \in DOMAIN fs.disk
      THEN fs.disk[fs.start_lba + start_sector]
      ELSE [i \in 1..(fs.bytes_per_sector \div DIRECTORY_ENTRY_SIZE) |-> ZeroDirEntry]

\* a sector the iterator has read: after is "new" for the first sector,
\* "Next" for the sector read after a link of the FAT, "same" for the sector
\* after the one before; cluster is current_cluster at the read
SectorRead(sector_index, after, cluster) ==
    [sector |-> sector_index, after |-> after, cluster |-> cluster]

\* DirectoryIterator::new.  trace is the sectors the iterator has read, stop
\* is what ended its walk over the sectors.
DirectoryIteratorAt(dir, sector_index, cluster, sector) ==
    [dir |-> dir, current_sector |-> sector, current_sector_index |-> sector_index,
     current_cluster |-> cluster, entry_index_in_sector |-> 0,
     trace |-> <<SectorRead(sector_index, "new", cluster)>>, stop |-> "none"]

DirectoryIteratorNew(fs, dir) ==
    IF dir.root
      THEN DirectoryIteratorAt(dir, dir.start_sector, 0,
                               read_sectors(fs, dir.start_sector))
    ELSE IF Underflows(fs, dir.start_cluster) /\ fs.overflow_checks
      THEN [DirectoryIteratorAt(dir, 0, dir.start_cluster, <<>>) EXCEPT !.stop = "Panic"]
      ELSE DirectoryIteratorAt(dir, first_sector_of_cluster(fs, dir.start_cluster),
                               dir.start_cluster,
                               read_sectors(fs, first_sector_of_cluster(fs, dir.start_cluster)))

\* the end of next_sector: read the sector and start at its first entry
NextSectorRead(fs, it, next_sector_index, after) ==
    [it |-> [it EXCEPT !.current_sector = read_sectors(fs, next_sector_index),
                       !.current_sector_index = next_sector_index,
                       !.entry_index_in_sector = 0,
                       !.trace = Append(@, SectorRead(next_sector_index, after,
                                                      it.current_cluster))],
     more |-> TRUE]

NextSectorStop(it, why) == [it |-> [it EXCEPT !.stop = why], more |-> FALSE]

\* next_sector_index after FatEntry::Next(cluster)
NextClusterSector(fs, cluster) == cluster * sectors_per_cluster(fs)

\* the match on the FAT entry of the current cluster
NextSectorOfChain(fs, it, next_cluster) ==
    IF next_cluster.kind = "Next"
      THEN NextSectorRead(fs, [it EXCEPT !.current_cluster = next_cluster.cluster],
                          NextClusterSector(fs, next_cluster.cluster), "Next")
      ELSE NextSectorStop(it, next_cluster.kind)

\* DirectoryIterator::next_sector: more is Ok(true); without more, stop tells
\* Ok(false) ("RootEnd", "EndOfChain") from Err ("Free", "Bad", "Reserved")
\* and from a panic ("Panic")
next_sector(fs, it) ==
    IF it.dir.root
      THEN IF it.current_sector_index + 1 >= it.dir.start_sector + it.dir.size_in_sectors
             THEN NextSectorStop(it, "RootEnd")
             ELSE NextSectorRead(fs, it, it.current_sector_index + 1, "same")
      ELSE IF (it.current_sector_index + 1) % sectors_per_cluster(fs) = 0
             THEN NextSectorOfChain(fs, it, read_fat_entry(fs, it.current_cluster))
             ELSE NextSectorRead(fs, it, it.current_sector_index + 1, "same")

\* the entry at the cursor, and the cursor moved past it
TakeEntry(it) ==
    [it |-> [it EXCEPT !.entry_index_in_sector = @ + 1], ok |-> TRUE,
     entry |-> it.current_sector[it.entry_index_in_sector + 1]]

NoEntryLeft(it) == [it |-> it, ok |-> FALSE, entry |-> ZeroDirEntry]

RECURSIVE get_next_entry(_, _)
\* get_next_entry after next_sector
GetNextEntryAfter(fs, r) ==
    IF r.more THEN get_next_entry(fs, r.it) ELSE NoEntryLeft(r.it)

\* DirectoryIterator::get_next_entry
get_next_entry(fs, it) ==
    IF (it.entry_index_in_sector * DIRECTORY_ENTRY_SIZE) + DIRECTORY_ENTRY_SIZE
          > Len(it.current_sector) * DIRECTORY_ENTRY_SIZE
      THEN GetNextEntryAfter(fs, next_sector(fs, it))
      ELSE TakeEntry(it)

RECURSIVE SkipFree(_, _)
\* the first loop of next: stop at 0x00, pass over 0xE5
SkipFree(fs, g) ==
    IF ~g.ok THEN g
    ELSE IF g.entry.name[1] = 0
      THEN [g EXCEPT !.ok = FALSE, !.it.stop = "Terminator"]
    ELSE IF g.entry.name[1] = DELETED
      THEN SkipFree(fs, get_next_entry(fs, g.it))
    ELSE g

\* the units of a long name slot up to the first zero unit
RECURSIVE TakeUnits(_)
TakeUnits(units) ==
    IF units = <<>> \/ Head(units) = 0 THEN <<>>
    ELSE <<Head(units)>> \o TakeUnits(Tail(units))

\* char::decode_utf16 of the units of the model, none of which is a surrogate
NamePart(entry) == TakeUnits(entry.units)

RECURSIVE LongNameParts(_, _, _, _)
\* the for loop over the long name slots: g.entry is the slot at hand
LongNameParts(fs, g, n, parts) ==
    IF ~g.ok \/ n = 0 THEN [g |-> g, parts |-> parts]
    ELSE LongNameParts(fs, get_next_entry(fs, g.it), n - 1,
                       Append(parts, NamePart(g.entry)))

\* long_name_enteries.into_iter().rev(), pushed onto one string
RECURSIVE JoinReversed(_)
JoinReversed(parts) ==
    IF parts = <<>> THEN <<>>
    ELSE JoinReversed(Tail(parts)) \o Head(parts)

\* 8 - base_name.iter().rev().position(|&c| c != 0x20).unwrap()
BaseNameEnd(name) ==
    CHOOSE e \in 1..8 : name[e] # SPACE /\ \A i \in (e + 1)..8 : name[i] = SPACE

RECURSIVE ExtensionChars(_, _)
ExtensionChars(name, i) ==
    IF i > 11 \/ name[i] = SPACE THEN <<>>
    ELSE <<name[i]>> \o ExtensionChars(name, i + 1)

\* the short file name of an entry
ShortName(name) ==
    SubSeq(name, 1, BaseNameEnd(name))
       \o (IF name[9] # SPACE THEN <<DOT>> \o ExtensionChars(name, 9) ELSE <<>>)

\* the INode of the entry the name ends at
EntryINode(name, entry) ==
    new_file(name, file_attribute_from_fat(entry.attr),
             (entry.cluster_hi * 65536) + entry.cluster_lo, entry.size)

NoINode == new_file(<<>>, file_attribute_from_fat({}), 0, 0)

IterNone(it) == [it |-> it, some |-> FALSE, inode |-> NoINode]
IterSome(it, inode) == [it |-> it, some |-> TRUE, inode |-> inode]
IterPanic(it) == IterNone([it EXCEPT !.stop = "Panic"])

\* next, after the slots of a long name
NextLongNamed(l) ==
    IF ~l.g.ok THEN IterNone(l.g.it)
    ELSE IterSome(l.g.it, EntryINode(JoinReversed(l.parts), l.g.entry))

\* next, from the first entry that is in use
NextNamed(fs, g) ==
    IF ~g.ok THEN IterNone(g.it)
    ELSE IF LONG_NAME \subseteq g.entry.attr
      THEN IF (g.entry.name[1] \div LAST_LONG_ENTRY) % 2 # 1
             THEN IterPanic(g.it)
             ELSE NextLongNamed(LongNameParts(fs, g, g.entry.name[1] % LAST_LONG_ENTRY, <<>>))
    ELSE IF \A i \in 1..8 : g.entry.name[i] = SPACE
      THEN IterPanic(g.it)
    ELSE IterSome(g.it, EntryINode(ShortName(g.entry.name), g.entry))

\* Iterator::next of DirectoryIterator
IterNext(fs, it) == NextNamed(fs, SkipFree(fs, get_next_entry(fs, it)))

RECURSIVE CollectFrom(_, _, _)
\* collect(): the items of the iterator up to its first None
CollectAfter(fs, n, acc) ==
    IF n.some THEN CollectFrom(fs, n.it, Append(acc, n.inode))
    ELSE [inodes |-> acc, it |-> n.it]

CollectFrom(fs, it, acc) == CollectAfter(fs, IterNext(fs, it), acc)

\* nothing is collected from an iterator whose construction panicked
Collect(fs, it) ==
    IF it.stop = "Panic" THEN [inodes |-> <<>>, it |-> it]
    ELSE CollectFrom(fs, it, <<>>)

(***************************************************************************)
(* kernel/src/fs/fat.rs: open_dir, open_dir_inode and read_file            *)
(*                                                                         *)
(* A path and a name are sequences of characters.  The result of a call is *)
(* a record: status is "Ok", "Err" or "Panic", err the FileSystemError,    *)
(* inodes the listing of a directory call, it the iterator the listing was *)
(* collected from, n the count read_file returns, segs the slices it       *)
(* copied into the buffer, in order: len bytes from offset of sector.      *)
(***************************************************************************)
NoIterator == DirectoryIteratorAt(RootFat12_16(0, 0), 0, 0, <<>>)

FsOk(list, it, n, segs) ==
    [status |-> "Ok", err |-> "none", inodes |-> list, it |-> it,
     n |-> n, segs |-> segs]

FsErr(err) ==
    [status |-> "Err", err |-> err, inodes |-> <<>>, it |-> NoIterator,
     n |-> 0, segs |-> <<>>]

FsPanic ==
    [status |-> "Panic", err |-> "none", inodes |-> <<>>, it |-> NoIterator,
     n |-> 0, segs |-> <<>>]

\* Ok(iterator.collect()), unless the iteration panicked
Collected(c) ==
    IF c.it.stop = "Panic" THEN FsPanic ELSE FsOk(c.inodes, c.it, 0, <<>>)

\* FatFilesystem::open_root_dir
open_root_dir(fs) ==
    IF fs.ty \in {"Fat12", "Fat16"}
      THEN RootFat12_16(root_dir_start_sector(fs), root_dir_sectors(fs))
      ELSE Normal(new_file(<<SLASH>>, file_attribute_from_fat({DIRECTORY}),
                           fs.root_cluster, 0))

RECURSIVE SplitFrom(_, _, _)
\* str::split('/'): the pieces between the separators, the empty ones too
SplitFrom(path, cur, acc) ==
    IF path = <<>> THEN Append(acc, cur)
    ELSE IF Head(path) = SLASH THEN SplitFrom(Tail(path), <<>>, Append(acc, cur))
    ELSE SplitFrom(Tail(path), Append(cur, Head(path)), acc)

Split(path) == SplitFrom(path, <<>>, <<>>)

\* the paths that skip the empty components, and the ones that do not
SkipsComponent_Never(component) == FALSE

\* component.is_empty()
SkipsComponent(component) == component = <<>>

RECURSIVE FindEntry(_, _, _)
\* the inner loop of open_dir over the entries of dir
FindEntryAt(fs, n, component) ==
    IF ~n.some
      THEN IF n.it.stop = "Panic" THEN [found |-> "Panic", inode |-> NoINode]
                                  ELSE [found |-> "FileNotFound", inode |-> NoINode]
    ELSE IF n.inode.name = component
      THEN IF ~is_dir(n.inode) THEN [found |-> "IsNotDirectory", inode |-> n.inode]
                               ELSE [found |-> "Dir", inode |-> n.inode]
    ELSE FindEntry(fs, n.it, component)

FindEntry(fs, it, component) ==
    IF it.stop = "Panic" THEN [found |-> "Panic", inode |-> NoINode]
    ELSE FindEntryAt(fs, IterNext(fs, it), component)

RECURSIVE OpenDirWalk(_, _, _)
\* the component loop after the search of one component
OpenDirStep(fs, f, rest) ==
    IF f.found = "Panic" THEN FsPanic
    ELSE IF f.found = "Dir" THEN OpenDirWalk(fs, Normal(f.inode), rest)
    ELSE FsErr(f.found)

\* the component loop of open_dir, then the listing of the directory it ends at
OpenDirWalk(fs, dir, components) ==
    IF components = <<>>
      THEN Collected(Collect(fs, DirectoryIteratorNew(fs, dir)))
    ELSE IF SkipsComponent(Head(components))
      THEN OpenDirWalk(fs, dir, Tail(components))
    ELSE OpenDirStep(fs, FindEntry(fs, DirectoryIteratorNew(fs, dir), Head(components)),
                     Tail(components))

\* FileSystem::open_dir of Mutex<FatFilesystem>: FatFilesystem::open_dir and
\* the collect() of its iterator
open_dir(fs, path) ==
    IF path = <<>> THEN FsErr("InvalidPath")
    ELSE IF Head(path) # SLASH THEN FsErr("InvalidPath")
    ELSE IF path = <<SLASH>>
      THEN Collected(Collect(fs, DirectoryIteratorNew(fs, open_root_dir(fs))))
    ELSE OpenDirWalk(fs, open_root_dir(fs), Split(Tail(path)))

\* FileSystem::read_dir of Mutex<FatFilesystem>: open_dir_inode and collect()
read_dir(fs, inode) ==
    IF ~is_dir(inode) THEN FsErr("IsNotDirectory")
    ELSE Collected(Collect(fs, DirectoryIteratorNew(fs, Normal(inode))))

\* where the skip loop of read_file ends: the cluster of the position, or the
\* FAT entry that is no link
SkipTo(cluster) == [ok |-> TRUE, cluster |-> cluster, why |-> "none"]

RECURSIVE SkipClusters(_, _, _)
SkipLink(fs, e, k) ==
    IF e.kind = "Next" THEN SkipClusters(fs, e.cluster, k - 1)
    ELSE [ok |-> FALSE, cluster |-> 0, why |-> e.kind]

\* for _ in 0..cluster_index { cluster = match self.read_fat_entry(cluster) .. }
SkipClusters(fs, cluster, k) ==
    IF k = 0 THEN SkipTo(cluster) ELSE SkipLink(fs, read_fat_entry(fs, cluster), k)

\* cluster_index without the links to skip
ClusterIndex_Zero(fs, position) == 0

\* position / self.boot_sector.bytes_per_cluster()
ClusterIndex(fs, position) == position \div bytes_per_cluster(fs)

\* max_to_read without the clamp to the rest of the file
MaxToRead_Unclamped(len, remaining_file) == len

\* (buf.len() as u32).min(remaining_file), for a buffer below 4 GiB
MaxToRead(len, remaining_file) == Min(len, remaining_file)

\* sector_number without the offset of the sector in its cluster
SliceSector_First(fs, cluster, position_in_cluster) ==
    first_sector_of_cluster(fs, cluster)

\* cluster_start_sector + cluster_offset
SliceSector(fs, cluster, position_in_cluster) ==
    first_sector_of_cluster(fs, cluster)
       + (position_in_cluster \div bytes_per_sector(fs))

\* the slice one round of the loop copies
Slice(fs, cluster, position_in_cluster, to_read) ==
    [sector |-> SliceSector(fs, cluster, position_in_cluster),
     offset |-> position_in_cluster % bytes_per_sector(fs),
     len |-> to_read]

RECURSIVE ReadLoop(_, _, _, _, _, _)
\* the match on the FAT entry at the end of a cluster
ReadCross(fs, max_to_read, e, read, segs) ==
    IF e.kind = "Next" THEN ReadLoop(fs, max_to_read, e.cluster, 0, read, segs)
    ELSE IF e.kind = "EndOfChain" THEN FsOk(<<>>, NoIterator, read, segs)
    ELSE IF e.kind = "Panic" THEN FsPanic
    ELSE FsErr("UnexpectedFatEntry")

\* the end of one round, after the copy
ReadAdvance(fs, max_to_read, cluster, position_in_cluster, read, segs) ==
    IF position_in_cluster >= bytes_per_cluster(fs)
      THEN ReadCross(fs, max_to_read, read_fat_entry(fs, cluster), read, segs)
      ELSE ReadLoop(fs, max_to_read, cluster, position_in_cluster, read, segs)

\* one round with its to_read
ReadSlice(fs, max_to_read, cluster, position_in_cluster, read, segs, to_read) ==
    ReadAdvance(fs, max_to_read, cluster, position_in_cluster + to_read,
                read + to_read,
                Append(segs, Slice(fs, cluster, position_in_cluster, to_read)))

\* while read < max_to_read
ReadLoop(fs, max_to_read, cluster, position_in_cluster, read, segs) ==
    IF read >= max_to_read THEN FsOk(<<>>, NoIterator, read, segs)
    ELSE IF Underflows(fs, cluster) /\ fs.overflow_checks THEN FsPanic
    ELSE ReadSlice(fs, max_to_read, cluster, position_in_cluster, read, segs,
                   Min(bytes_per_sector(fs) - (position_in_cluster % bytes_per_sector(fs)),
                       max_to_read - read))

\* read_file after the skip loop
ReadFrom(fs, sk, max_to_read, position_in_cluster) ==
    IF sk.ok THEN ReadLoop(fs, max_to_read, sk.cluster, position_in_cluster, 0, <<>>)
    ELSE IF sk.why = "Panic" THEN FsPanic
    ELSE FsErr("UnexpectedFatEntry")

\* FatFilesystem::read_file into a buffer of len bytes
read_file(fs, inode, position, len) ==
    IF is_dir(inode) THEN FsErr("IsDirectory")
    ELSE IF position >= inode.size THEN FsOk(<<>>, NoIterator, 0, <<>>)
    ELSE ReadFrom(fs,
                  SkipClusters(fs, inode.start_cluster, ClusterIndex(fs, position)),
                  MaxToRead(len, inode.size - position),
                  position % bytes_per_cluster(fs))

(***************************************************************************)
(* The volumes of the model                                                *)
(*                                                                         *)
(* A volume is what FatFilesystem::new leaves: the decoded boot sector,    *)
(* the cached FAT (all copies, as load_fat reads them) and the device.     *)
(* The sectors of the volumes are 64 bytes, two directory entries, but for *)
(* the volume of the chain walk scenario, whose sectors are 512 bytes.     *)
(***************************************************************************)
RECURSIVE Flatten(_)
Flatten(seqs) == IF seqs = <<>> THEN <<>> ELSE Head(seqs) \o Flatten(Tail(seqs))

\* the bytes of a FAT16 and of a FAT32 entry, and of a pair of FAT12 entries
LE16(v) == <<v % 256, v \div 256>>
LE32(v) == <<v % 256, (v \div 256) % 256, (v \div 65536) % 256, v \div 16777216>>
Fat12Pair(a, b) == <<a % 256, (a \div 256) + ((b % 16) * 16), b \div 16>>

\* bytes, filled with zeroes up to n bytes
PadBytes(bytes, n) == bytes \o [i \in 1..(n - Len(bytes)) |-> 0]

Spaces(n) == [i \in 1..n |-> SPACE]

\* a short entry: an 8.3 name, the attribute bits, the first cluster, the size
ShortEntry(base, ext, attr, cluster, size) ==
    [name |-> base \o Spaces(8 - Len(base)) \o ext \o Spaces(3 - Len(ext)),
     attr |-> attr, units |-> <<>>,
     cluster_hi |-> cluster \div 65536, cluster_lo |-> cluster % 65536,
     size |-> size]

\* a long name slot: the ordinal byte and the 13 units
LongEntry(ord, units) ==
    [name |-> <<ord>> \o [i \in 1..10 |-> 0], attr |-> LONG_NAME, units |-> units,
     cluster_hi |-> 0, cluster_lo |-> 0, size |-> 0]

\* a deleted short entry
DeletedEntry == ShortEntry(<<DELETED, 79, 76, 68>>, <<>>, {ARCHIVE}, 9, 10)

\* the sectors of the device that hold directories: those of the root of a
\* FAT12/16 volume, and those of the clusters given
DiskSectors(g, root, clusters) ==
    {g.start_lba + root_dir_start_sector(g) + (i - 1) : i \in 1..Len(root)}
       \cup {g.start_lba + first_sector_of_cluster(g, c) + (j - 1) :
                c \in DOMAIN clusters, j \in 1..sectors_per_cluster(g)}

DiskSectorOf(g, root, clusters, s) ==
    IF s - g.start_lba - root_dir_start_sector(g) \in 0..(Len(root) - 1)
      THEN root[s - g.start_lba - root_dir_start_sector(g) + 1]
      ELSE LET c == CHOOSE c \in DOMAIN clusters :
                       s - g.start_lba - first_sector_of_cluster(g, c)
                          \in 0..(sectors_per_cluster(g) - 1)
           IN clusters[c][s - g.start_lba - first_sector_of_cluster(g, c) + 1]

\* the mounted volume of a boot sector g, a FAT and the directories on disk
MkVolume(g, fat, root, clusters) ==
    [mounted |-> TRUE, ty |-> g.ty, start_lba |-> g.start_lba,
     bytes_per_sector |-> g.bytes_per_sector,
     sectors_per_cluster |-> g.sectors_per_cluster,
     reserved_sectors_count |-> g.reserved_sectors_count,
     number_of_fats |-> g.number_of_fats, fat_size |-> g.fat_size,
     root_entry_count |-> g.root_entry_count, root_cluster |-> g.root_cluster,
     overflow_checks |-> TRUE, fat |-> fat,
     disk |-> [s \in DiskSectors(g, root, clusters) |-> DiskSectorOf(g, root, clusters, s)]]

\* ---- a FAT32 tree, used under two boot sectors ----
\*   /            clusters 2 -> 3           D (dir), F (100 bytes), G (64 bytes)
\*   /D           clusters 4 -> 5           "ABCDEFGHIJKLMN.T" (long name, 10
\*                                          bytes), E (dir)
\*   /D/E         cluster 10, FAT entry Free, both entries in use: Y, Z
\*   F 6 -> 7, G 8, the long named file 9, Y 11 (its chain ends before its
\*   100 bytes), Z 12 -> 13 -> Bad (200 bytes)
\*   entries 14..: 1 (reserved), 0xFFFF_FFFF and 0xF000_0000 (the top four
\*   bits are no part of the value), 0x0FFF_FFF6, 0x0FFF_FFF7, 0x0FFF_FFF8
Fat32Entries ==
    Flatten(<<LE32(268435448), LE32(268435455), LE32(3), LE32(268435455),
              LE32(5), LE32(268435455), LE32(7), LE32(268435455),
              LE32(268435455), LE32(268435455), LE32(0), LE32(268435455),
              LE32(13), LE32(268435447), LE32(1), <<255, 255, 255, 255>>,
              <<0, 0, 0, 240>>, LE32(268435446), LE32(268435447), LE32(268435448)>>)

Fat32Clusters ==
    (2 :> << <<ShortEntry(<<68>>, <<>>, {DIRECTORY}, 4, 0),
               ShortEntry(<<70>>, <<>>, {ARCHIVE}, 6, 100)>> >>)
    @@ (3 :> << <<ShortEntry(<<71>>, <<>>, {ARCHIVE}, 8, 64), ZeroDirEntry>> >>)
    @@ (4 :> << <<LongEntry(66, <<78, 46, 84, 0, 65535, 65535, 65535, 65535,
                                 65535, 65535, 65535, 65535, 65535>>),
               LongEntry(1, <<65, 66, 67, 68, 69, 70, 71, 72, 73, 74, 75, 76, 77>>)>> >>)
    @@ (5 :> << <<ShortEntry(<<65, 66, 67, 68, 69, 70, 126, 49>>, <<84>>, {ARCHIVE}, 9, 10),
               ShortEntry(<<69>>, <<>>, {DIRECTORY}, 10, 0)>> >>)
    @@ (10 :> << <<ShortEntry(<<89>>, <<>>, {ARCHIVE}, 11, 100),
                ShortEntry(<<90>>, <<>>, {ARCHIVE}, 12, 200)>> >>)

\* the data region starts at sector 2: the sector of cluster c is c
Fat32BootAligned ==
    [ty |-> "Fat32", start_lba |-> 0, bytes_per_sector |-> 64,
     sectors_per_cluster |-> 1, reserved_sectors_count |-> 1,
     number_of_fats |-> 1, fat_size |-> 1, root_entry_count |-> 0,
     root_cluster |-> 2]

\* two reserved sectors and two copies of a FAT of two sectors: the data
\* region starts at sector 6
Fat32Boot ==
    [ty |-> "Fat32", start_lba |-> 4, bytes_per_sector |-> 64,
     sectors_per_cluster |-> 1, reserved_sectors_count |-> 2,
     number_of_fats |-> 2, fat_size |-> 2, root_entry_count |-> 0,
     root_cluster |-> 2]

\* its FAT is one sector, the entries 0..15
VolumeFat32Aligned ==
    MkVolume(Fat32BootAligned, SubSeq(Fat32Entries, 1, 64), <<>>, Fat32Clusters)

VolumeFat32 ==
    MkVolume(Fat32Boot, PadBytes(Fat32Entries, 128) \o PadBytes(Fat32Entries, 128),
             <<>>, Fat32Clusters)

\* ---- a FAT16 volume with two sectors in a cluster ----
\*   /    one sector: S (dir), H (200 bytes, clusters 3 -> 4)
\*   /S   cluster 2: P, Q in its first sector, R in its second
\*   entries 5..: 1, 0xFFF6, 0xFFF7, 0xFFF8, 0
Fat16Entries ==
    Flatten(<<LE16(65528), LE16(65535), LE16(65535), LE16(4), LE16(65535),
              LE16(1), LE16(65526), LE16(65527), LE16(65528), LE16(0)>>)

Fat16Boot ==
    [ty |-> "Fat16", start_lba |-> 0, bytes_per_sector |-> 64,
     sectors_per_cluster |-> 2, reserved_sectors_count |-> 1,
     number_of_fats |-> 1, fat_size |-> 1, root_entry_count |-> 2,
     root_cluster |-> 0]

VolumeFat16 ==
    MkVolume(Fat16Boot, PadBytes(Fat16Entries, 64),
             << <<ShortEntry(<<83>>, <<>>, {DIRECTORY}, 2, 0),
                  ShortEntry(<<72>>, <<>>, {ARCHIVE}, 3, 200)>> >>,
             2 :> << <<ShortEntry(<<80>>, <<>>, {ARCHIVE}, 0, 0),
                       ShortEntry(<<81>>, <<>>, {ARCHIVE}, 0, 0)>>,
                     <<ShortEntry(<<82>>, <<>>, {ARCHIVE}, 0, 0), ZeroDirEntry>> >>)

\* ---- a FAT12 volume ----
\*   /    two sectors: a deleted entry, A (dir); B.T (70 bytes, 3 -> 4), the
\*        volume label V
\*   /A   cluster 2: C (1 byte, cluster 5), the end mark
\*   entries 6..: 0xFF7, 0xFF6, 1, 0, 0xFF6, 0xFF7, 0xFF8, 1, 2, 3; entry 42
\*   has its second byte past the end of the FAT
Fat12Entries ==
    Flatten(<<Fat12Pair(4088, 4095), Fat12Pair(4095, 4), Fat12Pair(4095, 4088),
              Fat12Pair(4087, 4086), Fat12Pair(1, 0), Fat12Pair(4086, 4087),
              Fat12Pair(4088, 1), Fat12Pair(2, 3)>>)

Fat12Boot ==
    [ty |-> "Fat12", start_lba |-> 0, bytes_per_sector |-> 64,
     sectors_per_cluster |-> 1, reserved_sectors_count |-> 1,
     number_of_fats |-> 1, fat_size |-> 1, root_entry_count |-> 4,
     root_cluster |-> 0]

VolumeFat12 ==
    MkVolume(Fat12Boot, PadBytes(Fat12Entries, 64),
             << <<DeletedEntry, ShortEntry(<<65>>, <<>>, {DIRECTORY}, 2, 0)>>,
                <<ShortEntry(<<66>>, <<84>>, {ARCHIVE}, 3, 70),
                  ShortEntry(<<86>>, <<>>, {VOLUME_ID}, 0, 0)>> >>,
             2 :> << <<ShortEntry(<<67>>, <<>>, {ARCHIVE}, 5, 1), ZeroDirEntry>> >>)

\* ---- the volume of the chain walk scenario ----
\*   sectors of 512 bytes, clusters of 1024 bytes; / holds W, 1500 bytes, in
\*   the clusters 3 -> 5
ChainWalkEntries ==
    Flatten(<<LE16(65528), LE16(65535), LE16(0), LE16(5), LE16(0), LE16(65535)>>)

ChainWalkBoot ==
    [ty |-> "Fat16", start_lba |-> 0, bytes_per_sector |-> 512,
     sectors_per_cluster |-> 2, reserved_sectors_count |-> 1,
     number_of_fats |-> 1, fat_size |-> 1, root_entry_count |-> 16,
     root_cluster |-> 0]

VolumeChainWalk ==
    MkVolume(ChainWalkBoot, PadBytes(ChainWalkEntries, 512),
             << <<ShortEntry(<<87>>, <<>>, {ARCHIVE}, 3, 1500)>>
                   \o [i \in 1..15 |-> ZeroDirEntry] >>,
             <<>>)

\* ---- a FAT12 volume with the dot entries of a subdirectory ----
\*   /    two sectors: D (dir, cluster 2)
\*   /D   cluster 2: "." (cluster 2) and ".." (cluster 0, the root)
\*   the root directory is the two sectors before the data region
DotDotEntries == Flatten(<<Fat12Pair(4088, 4095), Fat12Pair(4095, 0)>>)

VolumeDotDot ==
    MkVolume(Fat12Boot, PadBytes(DotDotEntries, 64),
             << <<ShortEntry(<<68>>, <<>>, {DIRECTORY}, 2, 0), ZeroDirEntry>>,
                <<ZeroDirEntry, ZeroDirEntry>> >>,
             2 :> << <<ShortEntry(<<DOT>>, <<>>, {DIRECTORY}, 2, 0),
                       ShortEntry(<<DOT, DOT>>, <<>>, {DIRECTORY}, 0, 0)>> >>)

Volumes ==
    {VolumeFat32Aligned, VolumeFat32, VolumeFat16, VolumeFat12, VolumeChainWalk,
     VolumeDotDot}

\* the kernel that mounts a volume is built with or without overflow checks
Builds == {[v EXCEPT !.overflow_checks = b] : v \in Volumes, b \in BOOLEAN}

(***************************************************************************)
(* The calls of the filesystem reader on the mounted volume                *)
(*                                                                         *)
(* One caller at a time holds the Mutex of the volume, so the calls are    *)
(* atomic steps.  The caller lists directories, keeps the INodes it got,   *)
(* and reads a file it has the INode of: from a start position, with one   *)
(* buffer length, advancing by the count of every read.                    *)
(***************************************************************************)
\* FAT entries the caller asks for: 0 .. MaxFatEntry
MaxFatEntry == 42
\* read_file calls of one reader
MaxReads == 6

\* "", "D", "/", "//", "/D", "//D", "/D/", "/D/E", "/D//E", "/D/N", "/F",
\* "/F/D", "/N", "/S", "/A", "/B.T"
Paths ==
    {<<>>, <<68>>, <<SLASH>>, <<SLASH, SLASH>>, <<SLASH, 68>>, <<SLASH, SLASH, 68>>,
     <<SLASH, 68, SLASH>>, <<SLASH, 68, SLASH, 69>>, <<SLASH, 68, SLASH, SLASH, 69>>,
     <<SLASH, 68, SLASH, 78>>, <<SLASH, 70>>, <<SLASH, 70, SLASH, 68>>, <<SLASH, 78>>,
     <<SLASH, 83>>, <<SLASH, 65>>, <<SLASH, 66, DOT, 84>>}

Positions == {0, 1, 64, 100, 1024, 1500}
BufLens == {0, 1, 40, 64, 500}

FsCall(op, entry, path, inode, position, len, res, fat) ==
    [op |-> op, entry |-> entry, path |-> path, inode |-> inode,
     position |-> position, len |-> len, res |-> res, fat |-> fat]

\* the INodes of a listing
Listed(res) == {res.inodes[i] : i \in 1..Len(res.inodes)}

FsReadFatEntry(n) ==
    /\ volume.mounted
    /\ fsres' = FsCall("read_fat_entry", n, <<>>, NoINode, 0, 0, FsPanic,
                       read_fat_entry(volume, n))
    /\ reader' = NoReader
    /\ UNCHANGED <<volume, inodes>>

\* a directory call and its listing
FsListed(op, path, inode, res) ==
    /\ fsres' = FsCall(op, 0, path, inode, 0, 0, res, FatFree)
    /\ inodes' = inodes \cup Listed(res)
    /\ reader' = NoReader
    /\ UNCHANGED volume

FsOpenDir(path) ==
    /\ volume.mounted
    /\ FsListed("open_dir", path, NoINode, open_dir(volume, path))

FsReadDir(inode) ==
    /\ volume.mounted
    /\ FsListed("read_dir", <<>>, inode, read_dir(volume, inode))

\* the caller starts to read a file at a position
FsOpen(inode, start, len) ==
    /\ volume.mounted
    /\ reader' = [open |-> TRUE, inode |-> inode, len |-> len, start |-> start,
                  position |-> start, counts |-> <<>>, segs |-> <<>>,
                  done |-> FALSE, failed |-> FALSE]
    /\ fsres' = NoCall
    /\ UNCHANGED <<volume, inodes>>

\* the reader after a read_file call
FsReadDone(res) ==
    /\ fsres' = FsCall("read_file", 0, <<>>, reader.inode, reader.position,
                       reader.len, res, FatFree)
    /\ reader' = IF res.status = "Ok"
                   THEN [reader EXCEPT !.position = @ + res.n,
                                       !.counts = Append(@, res.n),
                                       !.segs = @ \o res.segs,
                                       !.done = res.n = 0]
                   ELSE [reader EXCEPT !.done = TRUE, !.failed = TRUE]
    /\ UNCHANGED <<volume, inodes>>

\* the next read_file call of the reader
FsRead ==
    /\ volume.mounted
    /\ reader.open
    /\ ~reader.done
    /\ Len(reader.counts) < MaxReads
    /\ FsReadDone(read_file(volume, reader.inode, reader.position, reader.len))

NextFat ==
    \/ \E n \in 0..MaxFatEntry : FsReadFatEntry(n) /\ UNCHANGED <<mutexVars, vmVars, amlVars>>
    \/ \E path \in Paths : FsOpenDir(path) /\ UNCHANGED <<mutexVars, vmVars, amlVars>>
    \/ \E inode \in inodes : FsReadDir(inode) /\ UNCHANGED <<mutexVars, vmVars, amlVars>>
    \/ \E inode \in inodes, start \in Positions, len \in BufLens :
          FsOpen(inode, start, len) /\ UNCHANGED <<mutexVars, vmVars, amlVars>>
    \/ FsRead /\ UNCHANGED <<mutexVars, vmVars, amlVars>>

InitFat ==
    /\ volume \in Builds
    /\ inodes = {}
    /\ reader = NoReader
    /\ fsres = NoCall

\* a volume is mounted; the CPUs and the mappers are left alone
InitSpecFat ==
    InitCpus([c \in Cpus |-> TRUE]) /\ InitVMOver(EmptyTable) /\ InitFat /\ InitAmlIdle

SpecFat == InitSpecFat /\ [][NextFat]_vars

(***************************************************************************)
(* Properties of the filesystem reader                                     *)
(***************************************************************************)
\* the last call was op
Called(op) == volume.mounted /\ fsres.op = op

\* the 16-bit little-endian word of the FAT at an offset
FatWord(fs, off) == FatByte(fs, off) + (256 * FatByte(fs, off + 1))

\* the value of entry n by the packing rule: the low 12 bits (n even) or the
\* high 12 bits (n odd) of the word at n * 3 / 2, the word at n * 2, the low
\* 28 bits of the double word at n * 4
PackedValue(fs, n) ==
    CASE fs.ty = "Fat12" ->
            IF n % 2 = 0 THEN FatWord(fs, (n * 3) \div 2) % 4096
                         ELSE FatWord(fs, (n * 3) \div 2) \div 16
      [] fs.ty = "Fat16" -> FatWord(fs, n * 2)
      [] fs.ty = "Fat32" ->
            FatWord(fs, n * 4) + (65536 * (FatWord(fs, (n * 4) + 2) % 4096))

\* C11: for every FAT type and every entry n whose bytes are in the FAT,
\* read_fat_entry classifies the value the packing rule gives for n: the
\* result is one of Free, Next, EndOfChain, Bad, Reserved, and it is the
\* class from_u32 gives that value; Free is the class of 0 alone; Next(m)
\* carries the value itself and only for m >= 2.
C11_FatEntryDecode ==
    (Called("read_fat_entry") /\ fsres.fat.kind # "Panic") =>
        /\ fsres.fat.kind \in {"Free", "Next", "EndOfChain", "Bad", "Reserved"}
        /\ fsres.fat = from_u32(volume.ty, PackedValue(volume, fsres.entry))
        /\ (fsres.fat.kind = "Free") <=> (PackedValue(volume, fsres.entry) = 0)
        /\ fsres.fat.kind = "Next" =>
              /\ fsres.fat.cluster = PackedValue(volume, fsres.entry)
              /\ fsres.fat.cluster >= 2

\* a link read from an odd entry of a FAT12 volume
C11_Witness ==
    /\ Called("read_fat_entry")
    /\ volume.ty = "Fat12"
    /\ fsres.entry % 2 = 1
    /\ fsres.fat.kind = "Next"

\* the last call listed a directory
CalledDir == Called("open_dir") \/ Called("read_dir")

\* C12: when a DirectoryIterator over a cluster-chain directory reads a
\* sector after the FAT entry of its cluster was Next(m), that sector is the
\* first sector of cluster m: data_start_sector + (m - 2) * sectors_per_cluster.
C12_NextClusterFirstSector ==
    (CalledDir /\ fsres.res.status = "Ok") =>
        \A k \in 1..Len(fsres.res.it.trace) :
            fsres.res.it.trace[k].after = "Next" =>
                fsres.res.it.trace[k].sector =
                    data_start_sector(volume)
                       + ((fsres.res.it.trace[k].cluster - 2) * volume.sectors_per_cluster)

\* C13: when the cluster chain of a directory reaches a Free, Bad or
\* Reserved FAT entry during the iteration, open_dir and read_dir return an
\* error, never Ok with the entries read so far.
C13_BrokenDirChainIsError ==
    (CalledDir /\ fsres.res.it.stop \in {"Free", "Bad", "Reserved"}) =>
        fsres.res.status = "Err"

\* the clusters of a chain: c, then the links of the FAT up to the first
\* entry that is no link (fuel bounds the walk of a chain with a cycle)
RECURSIVE ChainClusters(_, _, _)
ChainLink(fs, e, fuel) ==
    IF e.kind = "Next" /\ fuel > 0 THEN ChainClusters(fs, e.cluster, fuel - 1) ELSE <<>>

ChainClusters(fs, c, fuel) == <<c>> \o ChainLink(fs, read_fat_entry(fs, c), fuel)

\* the FAT entry a chain ends at
ChainEnd(fs, chain) == read_fat_entry(fs, chain[Len(chain)])

\* the sectors of a cluster, in order
ClusterSectors(fs, c) ==
    [j \in 1..fs.sectors_per_cluster |-> first_sector_of_cluster(fs, c) + (j - 1)]

\* the sectors of a directory on the disk, in order: the root region of a
\* FAT12/16 volume, or the sectors of the clusters of its chain
DirSectors(fs, dir) ==
    IF dir.root
      THEN [i \in 1..dir.size_in_sectors |-> dir.start_sector + (i - 1)]
      ELSE Flatten([k \in 1..Len(ChainClusters(fs, dir.start_cluster, MaxFatEntry)) |->
                       ClusterSectors(fs, ChainClusters(fs, dir.start_cluster, MaxFatEntry)[k])])

\* the entries of a directory on the disk, in order
DirEntries(fs, dir) ==
    Flatten([i \in 1..Len(DirSectors(fs, dir)) |-> read_sectors(fs, DirSectors(fs, dir)[i])])

\* the INodes of a sequence of entries: none from the first 0x00 entry on,
\* none for a deleted entry, one for every other short entry, named by the
\* long name slots right before it when there are some
RECURSIVE ListEntries(_, _)
ListEntries(es, slots) ==
    IF es = <<>> \/ Head(es).name[1] = 0 THEN <<>>
    ELSE IF Head(es).name[1] = DELETED THEN ListEntries(Tail(es), <<>>)
    ELSE IF LONG_NAME \subseteq Head(es).attr
      THEN ListEntries(Tail(es), Append(slots, NamePart(Head(es))))
    ELSE <<EntryINode(IF slots = <<>> THEN ShortName(Head(es).name)
                                      ELSE JoinReversed(slots), Head(es))>>
            \o ListEntries(Tail(es), <<>>)

\* C14: a listing of a directory is, in the order of the disk, one INode for
\* every short entry that is not deleted and precedes the first 0x00 entry,
\* over all the sectors and clusters of the directory; a short entry after N
\* long name slots gives one INode named by the N fragments in reverse slot
\* order, with the cluster and the size of the short entry.
C14_ListingIsDirectory ==
    (CalledDir /\ fsres.res.status = "Ok") =>
        fsres.res.inodes = ListEntries(DirEntries(volume, fsres.res.it.dir), <<>>)

\* the chain of a file covers its size: the clusters from start_cluster on,
\* up to the EndOfChain entry the chain ends at, hold size bytes or more
CoversSize(fs, inode) ==
    \/ inode.size = 0
    \/ /\ inode.start_cluster >= 2
       /\ ChainEnd(fs, ChainClusters(fs, inode.start_cluster, MaxFatEntry)).kind
             = "EndOfChain"
       /\ Len(ChainClusters(fs, inode.start_cluster, MaxFatEntry)) * bytes_per_cluster(fs)
             >= inode.size

\* C15: for a file whose chain covers its size, read_file(inode, position,
\* buf) returns min(len(buf), size - position) when position < size and 0
\* when position >= size; for a directory it fails with IsDirectory and
\* copies nothing.
C15_ReadFileCount ==
    Called("read_file") =>
        /\ is_dir(fsres.inode) =>
              /\ fsres.res.status = "Err"
              /\ fsres.res.err = "IsDirectory"
              /\ fsres.res.segs = <<>>
        /\ (~is_dir(fsres.inode) /\ CoversSize(volume, fsres.inode)) =>
              /\ fsres.res.status = "Ok"
              /\ fsres.res.n = IF fsres.position < fsres.inode.size
                                 THEN Min(fsres.len, fsres.inode.size - fsres.position)
                                 ELSE 0

\* a read from inside a file whose buffer is longer than the rest of the file
C15_Witness ==
    /\ Called("read_file")
    /\ ~is_dir(fsres.inode)
    /\ CoversSize(volume, fsres.inode)
    /\ fsres.position > 0
    /\ fsres.position < fsres.inode.size
    /\ fsres.len > fsres.inode.size - fsres.position
    /\ fsres.res.n = fsres.inode.size - fsres.position

\* C16: when the chain of a file holds fewer bytes than position +
\* min(len(buf), size - position), because it ends or reaches a Free, Bad or
\* Reserved entry before, read_file fails with UnexpectedFatEntry; it never
\* returns Ok with fewer bytes.
C16_BrokenFileChainIsError ==
    (/\ Called("read_file")
     /\ ~is_dir(fsres.inode)
     /\ fsres.position < fsres.inode.size
     /\ fsres.inode.start_cluster >= 2
     /\ Len(ChainClusters(volume, fsres.inode.start_cluster, MaxFatEntry))
           * bytes_per_cluster(volume)
           < fsres.position + Min(fsres.len, fsres.inode.size - fsres.position))
      => (fsres.res.status = "Err" /\ fsres.res.err = "UnexpectedFatEntry")

\* the chain walk scenario: chain 3 -> 5 -> EndOfChain, clusters of 1024
\* bytes, a file of 1500 bytes, read from position 1024 with 500 bytes
ChainWalkScenario ==
    /\ volume.mounted
    /\ reader.open
    /\ ~is_dir(reader.inode)
    /\ bytes_per_cluster(volume) = 1024
    /\ reader.inode.size = 1500
    /\ reader.inode.start_cluster = 3
    /\ read_fat_entry(volume, 3) = FatNext(5)
    /\ read_fat_entry(volume, 5) = FatEndOfChain
    /\ reader.start = 1024
    /\ reader.len = 500

\* C17, as the scenario is written: the read returns 500 bytes taken from
\* cluster 5, sector 0, offset 0, and the next call returns 0.
C17_ChainWalkReads500 ==
    ChainWalkScenario =>
        /\ Len(reader.counts) >= 1 =>
              /\ reader.counts[1] = 500
              /\ reader.segs[1].sector = first_sector_of_cluster(volume, 5)
              /\ reader.segs[1].offset = 0
        /\ Len(reader.counts) >= 2 => reader.counts[2] = 0

\* C17: in the chain walk scenario the read returns the 476 bytes the file
\* has left after position 1024, taken from cluster 5, sector 0, offset 0,
\* and the next call, at position 1500, returns 0.
C17_ChainWalkReads476 ==
    ChainWalkScenario =>
        /\ ~reader.failed
        /\ Len(reader.counts) >= 1 =>
              /\ reader.counts[1] = 476
              /\ reader.segs =
                    <<[sector |-> first_sector_of_cluster(volume, 5), offset |-> 0,
                       len |-> 476]>>
        /\ Len(reader.counts) >= 2 => (reader.counts[2] = 0 /\ reader.position = 1500)

\* the two calls of the scenario are made
C17_Witness == ChainWalkScenario /\ Len(reader.counts) = 2

\* the bytes of the first k slices
RECURSIVE SumLens(_, _)
SumLens(segs, k) == IF k = 0 THEN 0 ELSE SumLens(segs, k - 1) + segs[k].len

RECURSIVE SumSeq(_)
SumSeq(q) == IF q = <<>> THEN 0 ELSE Head(q) + SumSeq(Tail(q))

\* byte i of a file is byte i mod bytes_per_cluster of the cluster
\* i div bytes_per_cluster of its chain: the sector it is in, and its offset
ByteSector(fs, chain, i) ==
    first_sector_of_cluster(fs, chain[(i \div bytes_per_cluster(fs)) + 1])
       + ((i % bytes_per_cluster(fs)) \div fs.bytes_per_sector)

ByteOffset(fs, i) == (i % bytes_per_cluster(fs)) % fs.bytes_per_sector

\* slice k of a reader that started at byte 0 holds the bytes of the file
\* from the end of slice k - 1 on, and they are in one sector
SliceInPlace(fs, chain, segs, k) ==
    /\ segs[k].len >= 1
    /\ segs[k].sector = ByteSector(fs, chain, SumLens(segs, k - 1))
    /\ segs[k].offset = ByteOffset(fs, SumLens(segs, k - 1))
    /\ segs[k].offset + segs[k].len <= fs.bytes_per_sector

\* C18: for a file with an intact chain and a buffer of one byte or more,
\* the reads from position 0, each at the position the counts before it add
\* up to, until one returns 0, give bytes whose count is the size of the
\* INode and whose byte i is byte i mod bytes_per_cluster of the cluster
\* i div bytes_per_cluster of the chain.
C18_SequentialRead ==
    (/\ volume.mounted
     /\ reader.open
     /\ reader.start = 0
     /\ reader.len >= 1
     /\ ~is_dir(reader.inode)
     /\ CoversSize(volume, reader.inode)) =>
        /\ ~reader.failed
        /\ reader.position = SumSeq(reader.counts)
        /\ SumLens(reader.segs, Len(reader.segs)) = reader.position
        /\ \A k \in 1..Len(reader.segs) :
              SliceInPlace(volume,
                           ChainClusters(volume, reader.inode.start_cluster, MaxFatEntry),
                           reader.segs, k)
        /\ reader.done => reader.position = reader.inode.size

\* a file of two clusters read to its end in three reads and the read of 0
C18_Witness ==
    /\ volume.mounted
    /\ reader.open
    /\ reader.start = 0
    /\ ~is_dir(reader.inode)
    /\ CoversSize(volume, reader.inode)
    /\ reader.done
    /\ ~reader.failed
    /\ Len(reader.counts) = 4
    /\ reader.inode.size > bytes_per_cluster(volume)
    /\ Len(reader.segs) > 3

\* the components of a path: its runs of characters other than '/'
RECURSIVE Components(_, _)
Components(path, cur) ==
    IF path = <<>> THEN (IF cur = <<>> THEN <<>> ELSE <<cur>>)
    ELSE IF Head(path) = SLASH
      THEN (IF cur = <<>> THEN <<>> ELSE <<cur>>) \o Components(Tail(path), <<>>)
    ELSE Components(Tail(path), Append(cur, Head(path)))

\* a path with every run of '/' made one '/'
RECURSIVE Squeeze(_)
Squeeze(path) ==
    IF Len(path) < 2 THEN path
    ELSE IF Head(path) = SLASH /\ path[2] = SLASH THEN Squeeze(Tail(path))
    ELSE <<Head(path)>> \o Squeeze(Tail(path))

\* the entries of a directory, as its iteration gives them
EntriesOf(fs, dir) == Collect(fs, DirectoryIteratorNew(fs, dir)).inodes

\* the places of a name among entries
Named(entries, name) == {i \in 1..Len(entries) : entries[i].name = name}

FirstOf(S) == CHOOSE i \in S : \A j \in S : i <= j

\* what the components lead to from dir: "FileNotFound" at the first
\* component that is no entry of the directory reached so far,
\* "IsNotDirectory" at the first that names an entry that is no directory,
\* "Ok" when every component names a directory
RECURSIVE Resolve(_, _, _)
ResolveIn(fs, entries, components) ==
    IF Named(entries, Head(components)) = {} THEN "FileNotFound"
    ELSE IF ~is_dir(entries[FirstOf(Named(entries, Head(components)))])
      THEN "IsNotDirectory"
    ELSE Resolve(fs, Normal(entries[FirstOf(Named(entries, Head(components)))]),
                 Tail(components))

Resolve(fs, dir, components) ==
    IF components = <<>> THEN "Ok"
    ELSE ResolveIn(fs, EntriesOf(fs, dir), components)

AmlOk(p, value) ==
    [status |-> "Ok", err |-> "none", value |-> value, wrapped |-> value < 0, p |-> p]

AmlErr(p, err) ==
    [status |-> "Err", err |-> err, value |-> 0, wrapped |-> FALSE, p |-> p]

AmlPanic(p) ==
    [status |-> "Panic", err |-> "none", value |-> 0, wrapped |-> FALSE, p |-> p]

\* Parser::get_next_byte
get_next_byte(p) ==
    IF p.pos >= Len(p.code)
      THEN [ok |-> FALSE, p |-> p, byte |-> 0]
      ELSE [ok |-> TRUE, p |-> [p EXCEPT !.pos = @ + 1], byte |-> p.code[p.pos + 1]]

RECURSIVE Pow2(_)
Pow2(k) == IF k = 0 THEN 1 ELSE 2 * Pow2(k - 1)

\* a - b on usize: the difference; below zero a panic in a build with
\* overflow checks, the wrapped value in a build without
UsizeSub(p, a, b, overflow_checks) ==
    IF a >= b THEN AmlOk(p, a - b)
    ELSE IF overflow_checks THEN AmlPanic(p)
    ELSE AmlOk(p, a - b)

RECURSIVE PkgFollowing(_, _, _, _, _)
\* length |= (byte as usize) << (8 * i + 4): the bits set are new ones
PkgFollowingByte(b, i, following_bytes, length, overflow_checks) ==
    IF ~b.ok THEN AmlErr(b.p, "UnexpectedEndOfCode")
    ELSE PkgFollowing(b.p, i + 1, following_bytes,
                      length + (b.byte * Pow2((8 * i) + 4)), overflow_checks)

\* for i in 0..following_bytes, and the subtraction after it
PkgFollowing(p, i, following_bytes, length, overflow_checks) ==
    IF i >= following_bytes
      THEN UsizeSub(p, length, following_bytes + 1, overflow_checks)
      ELSE PkgFollowingByte(get_next_byte(p), i, following_bytes, length,
                            overflow_checks)

\* get_pkg_length after the lead byte
PkgLead(b, overflow_checks) ==
    IF ~b.ok THEN AmlErr(b.p, "UnexpectedEndOfCode")
    ELSE IF b.byte \div 64 = 0 THEN UsizeSub(b.p, b.byte % 64, 1, overflow_checks)
    ELSE IF (b.byte \div 16) % 4 # 0 THEN AmlErr(b.p, "InvalidPkgLengthLead")
    ELSE PkgFollowing(b.p, 0, b.byte \div 64, b.byte % 16, overflow_checks)

\* Parser::get_pkg_length
get_pkg_length(p, overflow_checks) == PkgLead(get_next_byte(p), overflow_checks)

\* bytes of a slice: 0..MaxCode
MaxCode == 4
\* 0x00, 0x01, 0x3F, 0x40, 0x45, 0x50, 0x81, 0xC1
AmlBytes == {0, 1, 63, 64, 69, 80, 129, 193}

Codes == UNION {[1..n -> AmlBytes] : n \in 0..MaxCode}

\* a call of get_pkg_length at the cursor, in a build with or without
\* overflow checks; a caller goes on after an Ok
AmlGetPkgLength(overflow_checks) ==
    /\ IF amlres.op = "none" THEN TRUE ELSE amlres.res.status = "Ok"
    /\ amlres' = [op |-> "get_pkg_length", before |-> parser,
                  res |-> get_pkg_length(parser, overflow_checks)]
    /\ parser' = get_pkg_length(parser, overflow_checks).p

NextAml ==
    \E overflow_checks \in BOOLEAN :
        AmlGetPkgLength(overflow_checks) /\ UNCHANGED <<mutexVars, vmVars, fsVars>>

InitAml ==
    /\ parser \in {[code |-> c, pos |-> 0] : c \in Codes}
    /\ amlres = NoCall

\* the parser works on a byte slice; the CPUs, the mappers and the
\* filesystem are left alone
InitSpecAml ==
    InitCpus([c \in Cpus |-> TRUE]) /\ InitVMOver(EmptyTable) /\ InitFsIdle /\ InitAml

SpecAml == InitSpecAml /\ [][NextAml]_vars

(***************************************************************************)
(* Properties of the package length decoder                                *)
(***************************************************************************)
\* the lead byte of the last call, and the count of its following bytes
Lead == amlres.before.code[amlres.before.pos + 1]
Follow == Lead \div 64

\* the following bytes of the last call as a little-endian number
RECURSIVE FollowingValue(_, _, _)
FollowingValue(code, from, n) ==
    IF n = 0 THEN 0 ELSE code[from] + (256 * FollowingValue(code, from + 1, n - 1))

\* C20: for a lead byte with follow == 0 get_pkg_length returns
\* (lead & 0x3F) - 1; for follow > 0 with bits 4-5 of the lead zero and the
\* following bytes in the slice it returns
\* (lead & 0x0F | following bytes << 4) - follow - 1, and with bits 4-5 not
\* zero it returns InvalidPkgLengthLead; a call that returns a length has
\* moved the cursor by 1 + follow bytes.
C20_PkgLength ==
    (/\ amlres.op = "get_pkg_length"
     /\ amlres.before.pos < Len(amlres.before.code)) =>
        /\ Follow = 0 =>
              /\ amlres.res.status = "Ok"
              /\ ~amlres.res.wrapped
              /\ amlres.res.value = (Lead % 64) - 1
        /\ (/\ Follow > 0
            /\ (Lead \div 16) % 4 = 0
            /\ amlres.before.pos + 1 + Follow <= Len(amlres.before.code)) =>
              /\ amlres.res.status = "Ok"
              /\ ~amlres.res.wrapped
              /\ amlres.res.value =
                    ((Lead % 16)
                        + (16 * FollowingValue(amlres.before.code,
                                               amlres.before.pos + 2, Follow)))
                       - Follow - 1
        /\ (Follow > 0 /\ (Lead \div 16) % 4 # 0) =>
              (amlres.res.status = "Err" /\ amlres.res.err = "InvalidPkgLengthLead")
        /\ amlres.res.status = "Ok" =>
              amlres.res.p.pos = amlres.before.pos + 1 + Follow

(***************************************************************************)
(* Properties of the bounds of the FAT reads                               *)
(***************************************************************************)
\* the byte offsets read_fat_entry goes to for the entry of the last call
EntryOffsets ==
    {FatOffset(volume.ty, fsres.entry) + k : k \in 0..(FatWidth(volume.ty) - 1)}

\* assert!(fat_offset < self.fat.0.len()) lets the last call through
AssertPasses == FatOffset(volume.ty, fsres.entry) < Len(volume.fat)

FirstReadCluster ==
    SkipClusters(volume, fsres.inode.start_cluster, ClusterIndex(volume, fsres.position))

\* C30: every cluster number that open_dir, read_dir or read_file passes to
\* first_sector_of_cluster is 2 or more, for every INode a directory
\* iteration yields, so that cluster - 2 does not go below zero: no call
\* panics on it, the directory read_dir opens, the directory open_dir ends
\* at and the cluster a read starts at are clusters from 2 up.
C30_ClustersFromTwo ==
    /\ (Called("read_dir") /\ is_dir(fsres.inode)) =>
          /\ fsres.inode.start_cluster >= 2
          /\ fsres.res.status # "Panic"
    /\ (Called("open_dir") /\ fsres.res.status = "Ok" /\ ~fsres.res.it.dir.root) =>
          fsres.res.it.dir.start_cluster >= 2
    /\ (/\ Called("read_file")
        /\ ~is_dir(fsres.inode)
        /\ fsres.position < fsres.inode.size
        /\ fsres.len > 0
        /\ FirstReadCluster.ok) =>
          FirstReadCluster.cluster >= 2

(***************************************************************************)
(* Properties of the walks over the page tables                            *)
(***************************************************************************)
\* C25: the bulk teardown traversal follows only present entries: at every
\* level (L4, L3, L2) it reads the table an entry refers to only if the
\* entry has the present bit set, and it calls the closure only on present
\* leaf entries.
C25_TraversalFollowsPresent ==
    last.op = "unmap_process_memory" =>
        \A t \in last.via : Present(t.entry)

\* C26: for every 4 KiB-aligned physical address p that fits the 40-bit
\* frame field, map with physical_address = p installs leaf entries whose
\* frame field is the frame of p, page by page, and a table walk goes from an
\* entry to the whole frame stored in it.
C26_LeafKeepsFrame ==
    (last.op = "map" /\ last.ok /\ last.entry.physical_address.some) =>
        \A k \in 1..Len(RangePages(last.entry)) :
            /\ L1Entry(MkSt(mem, free), vms[last.vm], RangePages(last.entry)[k]).frame
                  = last.entry.physical_address.pfn + (k - 1)
            /\ from_entry(L1Entry(MkSt(mem, free), vms[last.vm],
                                  RangePages(last.entry)[k]))
                  = physical2virtual(last.entry.physical_address.pfn + (k - 1))

\* the pages the requests of the callers name
RequestPages == UNION {SeqRange(RangePages(r)) : r \in Requests}

\* the flag bits of the L4, L3 and L2 entries on the walk of a page
UpperFlags(st, vm, va) ==
    <<L4Entry(st, vm, va).flags, L3Entry(st, vm, va).flags, L2Entry(st, vm, va).flags>>

\* C27: unmap of a range that returns leaves every page outside the range as
\* it was: for each other mapped page the leaf entry and the flag bits of the
\* L4, L3 and L2 entries on its walk are the same before and after.
C27_UnmapLeavesOtherPages ==
    [][(last'.op = "unmap" /\ last'.ok) =>
          \A va \in RequestPages \ SeqRange(RangePages(StepEntry)) :
              WalkPresent(Cur, StepVm, va) =>
                  /\ L1Entry(Nxt, StepVm, va) = L1Entry(Cur, StepVm, va)
                  /\ UpperFlags(Nxt, StepVm, va) = UpperFlags(Cur, StepVm, va)]_vars

(***************************************************************************)
(* kernel/src/acpi/aml.rs: the term parser                                 *)
(*                                                                         *)
(* A parser is a record: code and pos are its own; methods, names and      *)
(* scopes are the State.  The methods map and the names set sit behind an  *)
(* Rc<RefCell<..>>, so a clone of the parser and an inner parser work on   *)
(* the same map and the same set as the parser they come from: every call  *)
(* hands the tables on in the parser of its result, whatever the status,   *)
(* and a caller that throws a parser away keeps the tables of it.  depth   *)
(* counts the clones predict_possible_args has made around the call, and   *)
(* trace is the history of the parse: declarations, name occurrences and   *)
(* probes in the order they happen.  overflow_checks is the build.         *)
(*                                                                         *)
(* A name is the sequence of the bytes of its String.  The opcodes of the  *)
(* model are Name, Method, Field, Store, Notify, Noop and Return; a byte   *)
(* that the source handles and the model does not gives "Unmodelled", and  *)
(* the programs of the model hold none at a place where it is decoded.     *)
(***************************************************************************)
ParseOk(p, val) == [status |-> "Ok", err |-> "none", val |-> val, p |-> p]

ParseErr(p, err) == [status |-> "Err", err |-> err, val |-> <<>>, p |-> p]

ParsePanic(p) == [status |-> "Panic", err |-> "none", val |-> <<>>, p |-> p]

Unmodelled(p) == [status |-> "Unmodelled", err |-> "none", val |-> <<>>, p |-> p]

\* the ? of Rust: go on with an Ok, hand anything else to the caller
Then(r, K(_)) == IF r.status = "Ok" THEN K(r) ELSE r

\* a result of get_next_byte or get_pkg_length as a result of the parser
OfByte(b) ==
    IF b.ok THEN ParseOk(b.p, b.byte) ELSE ParseErr(b.p, "UnexpectedEndOfCode")

OfLength(r) ==
    IF r.status = "Ok" THEN ParseOk(r.p, r.value)
    ELSE IF r.status = "Err" THEN ParseErr(r.p, r.err)
    ELSE ParsePanic(r.p)

\* Parser::peek_next_byte
peek_next_byte(p) ==
    IF p.pos >= Len(p.code) THEN ParseErr(p, "UnexpectedEndOfCode")
    ELSE ParseOk(p, p.code[p.pos + 1])

\* Parser::forward
forward(p, n) ==
    IF p.pos + n > Len(p.code) THEN ParseErr(p, "UnexpectedEndOfCode")
    ELSE ParseOk([p EXCEPT !.pos = @ + n], <<>>)

\* Parser::backward
backward(p, n) ==
    IF p.pos = 0 THEN ParseErr(p, "CannotMoveBackward")
    ELSE ParseOk([p EXCEPT !.pos = @ - n], <<>>)

\* b'A'..=b'Z' | b'_'
LeadNameChar(b) == (b >= 65 /\ b <= 90) \/ b = 95
\* b'A'..=b'Z' | b'_' | b'0'..=b'9'
NameChar(b) == LeadNameChar(b) \/ (b >= 48 /\ b <= 57)

\* b'\\', b'^', b'.', b'/'
RootChar == 92
ParentPrefixChar == 94
DualNamePrefix == 46
MultiNamePrefix == 47

RECURSIVE NamePathRest(_, _, _)
\* the three more bytes of a segment: a byte that is no name char panics
NamePathRest(r, str, k) ==
    IF r.status # "Ok" THEN r
    ELSE IF ~NameChar(r.val) THEN ParsePanic(r.p)
    ELSE IF k = 1 THEN ParseOk(r.p, Append(str, r.val))
    ELSE NamePathRest(OfByte(get_next_byte(r.p)), Append(str, r.val), k - 1)

\* parse_name_path of try_parse_name: a zero byte is the empty name,
\* any other byte starts a segment of four
parse_name_path(p) ==
    Then(OfByte(get_next_byte(p)),
         LAMBDA b : IF b.val = 0 THEN ParseOk(b.p, <<>>)
                    ELSE NamePathRest(OfByte(get_next_byte(b.p)), <<b.val>>, 3))

RECURSIVE try_parse_name(_)
\* Parser::parse_name: a byte that starts no name is a todo!
parse_name(p) ==
    Then(try_parse_name(p),
         LAMBDA r : IF r.val.some THEN ParseOk(r.p, r.val.name) ELSE ParsePanic(r.p))

None == [some |-> FALSE]
SomeName(name) == [some |-> TRUE, name |-> name]

\* Parser::try_parse_name
try_parse_name(p) ==
    Then(peek_next_byte(p),
         LAMBDA c :
            IF c.val = 0
              THEN Then(forward(p, 1), LAMBDA f : ParseOk(f.p, SomeName(<<>>)))
            ELSE IF LeadNameChar(c.val)
              THEN Then(parse_name_path(p), LAMBDA n : ParseOk(n.p, SomeName(n.val)))
            ELSE IF c.val = RootChar
              THEN Then(forward(p, 1),
                        LAMBDA f : Then(parse_name(f.p),
                                        LAMBDA n : ParseOk(n.p, SomeName(<<RootChar>> \o n.val))))
            ELSE IF c.val \in {ParentPrefixChar, DualNamePrefix, MultiNamePrefix}
              THEN Unmodelled(p)
            ELSE ParseOk(p, None))

\* trim_start_matches(['\\', '^'])
RECURSIVE TrimStart(_)
TrimStart(name) ==
    IF name # <<>> /\ Head(name) \in {RootChar, ParentPrefixChar}
      THEN TrimStart(Tail(name)) ELSE name

\* the map of the first scope of the list whose trimmed name is scope_name
RECURSIVE FindScope(_, _)
FindScope(scopes, scope_name) ==
    IF scopes = <<>> THEN [some |-> FALSE]
    ELSE IF TrimStart(Head(scopes).name) = scope_name
      THEN [some |-> TRUE, methods |-> Head(scopes).methods]
    ELSE FindScope(Tail(scopes), scope_name)

\* the count of the method of that name in a map, a map being the set of
\* its pairs
Lookup(methods, method_name) ==
    IF \E m \in methods : m.name = method_name
      THEN [some |-> TRUE,
            n_args |-> (CHOOSE m \in methods : m.name = method_name).n_args]
      ELSE [some |-> FALSE]

\* State::find_method: a name longer than four bytes is split into the
\* name of a scope and the last segment, which is looked up in the map of
\* that scope; a shorter one is looked up in the current map
LookupIn(scope, method_name) ==
    IF scope.some THEN Lookup(scope.methods, method_name) ELSE [some |-> FALSE]

find_method(p, name) ==
    IF Len(name) > 4
      THEN LookupIn(FindScope(p.scopes, TrimStart(SubSeq(name, 1, Len(name) - 5))),
                    SubSeq(name, Len(name) - 3, Len(name)))
      ELSE Lookup(p.methods, name)

\* State::find_name
find_name(p, name) == name \in p.names

\* BTreeMap::insert on the methods map, BTreeSet::insert on the names set
InsertMethod(p, name, n_args) ==
    [p EXCEPT !.methods = {m \in @ : m.name # name}
                              \cup {[name |-> name, n_args |-> n_args]}]

InsertName(p, name) == [p EXCEPT !.names = @ \cup {name}]

\* the history of the parse grows by one event
Log(p, e) == [p EXCEPT !.trace = Append(@, e)]

\* self.state.names.borrow_mut().insert(name), with its event
DeclareName(p, name) ==
    Log(InsertName(p, name), [ev |-> "Name", depth |-> p.depth, name |-> name])

\* the arms of the match of try_parse_term that the model leaves out:
\* 0x06, 0x0d, 0x10..0x13, 0x71..0x85, 0x87, 0x88, 0x8A..0x8D, 0x8F,
\* 0x90..0x99, 0xA0..0xA2, 0xA5
OtherOpcodes ==
    {6, 13} \cup (16..19) \cup (113..133) \cup {135, 136} \cup (138..141)
        \cup {143} \cup (144..153) \cup {160, 161, 162, 165}

\* the arms of the match on the byte after 0x5b that the model leaves out
OtherExtraOpcodes == {1, 2, 18, 33, 34, 35, 36, 37, 38, 39, 128, 130, 131, 132}

NameOp == 8
MethodOp == 20
ExtOpPrefix == 91
FieldOp == 129
IndexFieldOp == 134
StoreOp == 112
NotifyOp == 134
NoopOp == 163
ReturnOp == 164
DebugOp == 49
RefOfOp == 113

SomeTerm(term) == [some |-> TRUE, term |-> term]

\* what the tables and the cursor are at a moment of the parse
Tables(p) == [pos |-> p.pos, methods |-> p.methods, names |-> p.names]

\* Parser::get_inner_parser: the parser over the next pkg_length bytes, and
\* the cursor of the outer parser moved behind them; the slice panics when
\* it ends behind the code, as it does for a wrapped length
get_inner_parser(p) ==
    Then(OfLength(get_pkg_length(p, p.overflow_checks)),
         LAMBDA r :
            IF r.val < 0 \/ r.p.pos + r.val > Len(r.p.code) THEN ParsePanic(r.p)
            ELSE ParseOk([r.p EXCEPT !.pos = @ + r.val],
                         [r.p EXCEPT !.code = SubSeq(r.p.code, r.p.pos + 1,
                                                     r.p.pos + r.val),
                                     !.pos = 0]))

\* the result of an inner parser seen from the outer parser: the tables
\* are the same ones, the code and the cursor are the outer parser's
Outer(outer, r) ==
    [r EXCEPT !.p = [@ EXCEPT !.code = outer.code, !.pos = outer.pos,
                              !.scopes = outer.scopes]]

\* Parser::check_empty
check_empty(p) ==
    IF p.pos # Len(p.code) THEN ParseErr(p, "RemainingBytes") ELSE ParseOk(p, <<>>)

RECURSIVE try_parse_term(_, _)
RECURSIVE parse_term_arg_general(_, _)
RECURSIVE parse_term_list(_)
RECURSIVE ProbeLoop(_, _, _, _)

\* the n_args arguments of a method call
RECURSIVE ParseArgs(_, _, _)
ParseArgs(p, n_args, args) ==
    IF n_args = 0 THEN ParseOk(p, args)
    ELSE Then(parse_term_arg_general(p, TRUE),
              LAMBDA a : ParseArgs(a.p, n_args - 1, Append(args, a.val)))

\* what one try of the probe gave
TryKind(r) ==
    IF r.status # "Ok" THEN r.status
    ELSE IF r.val.k = "Expression" THEN r.val.term.t
    ELSE r.val.k

\* one try of the probe: a panic goes up; an error, a bare name, a Store and
\* a Notify end the probe; anything else counts as an argument
ProbeTry(r, n_args, i, tries) ==
    IF r.status \in {"Panic", "Unmodelled"}
      THEN [status |-> r.status, p |-> r.p, n_args |-> n_args,
            tries |-> Append(tries, TryKind(r))]
    ELSE IF TryKind(r) \in {"Err", "Name", "Store", "Notify"}
      THEN [status |-> "Ok", p |-> r.p, n_args |-> n_args,
            tries |-> Append(tries, TryKind(r))]
    ELSE ProbeLoop(r.p, n_args + 1, i + 1, Append(tries, TryKind(r)))

\* for _ in 0..7
ProbeLoop(inner, n_args, i, tries) ==
    IF i = 7 THEN [status |-> "Ok", p |-> inner, n_args |-> n_args, tries |-> tries]
    ELSE ProbeTry(parse_term_arg_general(inner, TRUE), n_args, i, tries)

\* the parser after the probe: its own code, cursor and scopes, and the
\* tables as the clone left them
ProbeDone(p, l) ==
    [status |-> l.status, err |-> "none", val |-> l.n_args,
     p |-> Log([p EXCEPT !.methods = l.p.methods, !.names = l.p.names,
                         !.trace = l.p.trace],
               [ev |-> "Probe", depth |-> p.depth, status |-> l.status,
                n_args |-> l.n_args, tries |-> l.tries,
                before |-> Tables(p),
                after |-> [Tables(l.p) EXCEPT !.pos = p.pos]])]

\* Parser::predict_possible_args
predict_possible_args(p) ==
    ProbeDone(p, ProbeLoop([p EXCEPT !.depth = @ + 1], 0, 0, <<>>))

\* an occurrence of a name in the trace
Occurrence(p, name, position, call, n_args, probed) ==
    Log(p, [ev |-> "Occurrence", depth |-> p.depth, name |-> name,
            position |-> position, call |-> call, n_args |-> n_args,
            probed |-> probed])

\* the name arm of try_parse_term: a known method has its count, any other
\* name the count of the probe
TermCall(p, name, n_args, probed) ==
    Then(ParseArgs(Occurrence(p, name, "term", TRUE, n_args, probed), n_args, <<>>),
         LAMBDA a : ParseOk(a.p, SomeTerm([t |-> "MethodCall", name |-> name,
                                           args |-> a.val])))

TermName(p, name) ==
    IF find_method(p, name).some
      THEN TermCall(p, name, find_method(p, name).n_args, FALSE)
      ELSE Then(predict_possible_args(p),
                LAMBDA n : TermCall(n.p, name, n.val, TRUE))

\* the name arm of parse_term_arg_general
ArgCall(p, name, n_args, probed) ==
    Then(ParseArgs(Occurrence(p, name, "term_arg", TRUE, n_args, probed), n_args, <<>>),
         LAMBDA a : ParseOk(a.p, [k |-> "MethodCall", name |-> name, args |-> a.val]))

ArgBare(p, name, probed) ==
    ParseOk(Occurrence(p, name, "term_arg", FALSE, 0, probed),
            [k |-> "Name", name |-> name])

ArgName(p, name, for_method_call) ==
    IF find_method(p, name).some
      THEN ArgCall(p, name, find_method(p, name).n_args, FALSE)
    ELSE IF find_name(p, name) THEN ArgBare(p, name, FALSE)
    ELSE IF for_method_call
      THEN Then(predict_possible_args(p),
                LAMBDA n : IF n.val = 0 THEN ArgBare(n.p, name, TRUE)
                           ELSE ArgCall(n.p, name, n.val, TRUE))
    ELSE ArgBare(p, name, FALSE)

\* a term in the place of a term-arg: no term is a todo!
ArgExpression(r) ==
    Then(r, LAMBDA t : IF t.val.some
                         THEN ParseOk(t.p, [k |-> "Expression", term |-> t.val.term])
                         ELSE ParsePanic(t.p))

\* Parser::parse_term_arg_general after the lead byte
TermArgLead(p, lead_byte, for_method_call) ==
    IF lead_byte = 0 THEN ParseOk(p, [k |-> "DataObject", v |-> "ConstZero"])
    ELSE IF lead_byte = 1 THEN ParseOk(p, [k |-> "DataObject", v |-> "ConstOne"])
    ELSE IF lead_byte \in {10, 11, 12, 14} THEN Unmodelled(p)
    ELSE IF lead_byte = 255 THEN ParseOk(p, [k |-> "DataObject", v |-> "ConstOnes"])
    ELSE IF lead_byte \in 96..103 THEN ParseOk(p, [k |-> "Local", v |-> lead_byte - 96])
    ELSE IF lead_byte \in 104..110 THEN ParseOk(p, [k |-> "Arg", v |-> lead_byte - 104])
    ELSE Then(backward(p, 1),
              LAMBDA b :
                Then(try_parse_name(b.p),
                     LAMBDA n :
                        IF n.val.some THEN ArgName(n.p, n.val.name, for_method_call)
                        ELSE Then(forward(n.p, 1),
                                  LAMBDA f : ArgExpression(try_parse_term(f.p, lead_byte)))))

parse_term_arg_general(p, for_method_call) ==
    Then(OfByte(get_next_byte(p)),
         LAMBDA b : TermArgLead(b.p, b.val, for_method_call))

parse_term_arg(p) == parse_term_arg_general(p, FALSE)

\* a name as a target is put into the names set
TargetName(p, name) == ParseOk(DeclareName(p, name), [k |-> "Name", name |-> name])

\* Parser::parse_target
parse_target(p) ==
    Then(peek_next_byte(p),
         LAMBDA c :
            IF c.val = 0
              THEN Then(forward(p, 1), LAMBDA f : ParseOk(f.p, [k |-> "None"]))
            ELSE IF c.val = ExtOpPrefix
              THEN Then(forward(p, 1),
                        LAMBDA f : Then(OfByte(get_next_byte(f.p)),
                                        LAMBDA n : IF n.val = DebugOp
                                                     THEN ParseOk(n.p, [k |-> "Debug"])
                                                     ELSE ParsePanic(n.p)))
            ELSE IF c.val = RefOfOp THEN ParsePanic(p)
            ELSE IF c.val \in 96..103
              THEN Then(forward(p, 1),
                        LAMBDA f : ParseOk(f.p, [k |-> "Local", v |-> c.val - 96]))
            ELSE IF c.val \in 104..110
              THEN Then(forward(p, 1),
                        LAMBDA f : ParseOk(f.p, [k |-> "Arg", v |-> c.val - 104]))
            ELSE Then(try_parse_name(p),
                      LAMBDA n :
                        IF n.val.some THEN TargetName(n.p, n.val.name)
                        ELSE Then(forward(n.p, 1),
                                  LAMBDA f :
                                    Then(try_parse_term(f.p, c.val),
                                         LAMBDA t : ParsePanic(t.p)))))

\* MethodObj::parse on the inner parser
MethodObjParse(inner) ==
    Then(parse_name(inner),
         LAMBDA n :
            Then(OfByte(get_next_byte(n.p)),
                 LAMBDA f :
                    Then(parse_term_list(f.p),
                         LAMBDA l :
                            Then(check_empty(l.p),
                                 LAMBDA e : ParseOk(e.p, [t |-> "Method", name |-> n.val,
                                                          flags |-> f.val,
                                                          term_list |-> l.val])))))

\* the 0x14 arm: the parsed method goes into the methods map with
\* arg_count, the low three bits of its flags
MethodTerm(p) ==
    Then(get_inner_parser(p),
         LAMBDA g :
            Then(Outer(g.p, MethodObjParse(g.val)),
                 LAMBDA m :
                    ParseOk(Log(InsertMethod(m.p, m.val.name, m.val.flags % 8),
                                [ev |-> "Method", depth |-> m.p.depth,
                                 name |-> m.val.name, n_args |-> m.val.flags % 8]),
                            SomeTerm(m.val))))

\* pkg_length + 1 on usize: a wrapped length of 2^64 - 1 gives 0, a
\* smaller wrapped one w + 1 stands for 2^64 + w + 1
FieldWidth(pkg_length) == pkg_length + 1

RECURSIVE FieldsLoop(_, _)

\* the reserved field: the zero byte, then the length
ReservedField(p, field_list) ==
    Then(forward(p, 1),
         LAMBDA f :
            Then(OfLength(get_pkg_length(f.p, f.p.overflow_checks)),
                 LAMBDA l : FieldsLoop(l.p, Append(field_list,
                                [f |-> "ReservedField", name |-> <<>>,
                                 width |-> FieldWidth(l.val), at |-> f.p.pos]))))

\* the named field: a name of one segment, which goes into the names set,
\* then the length
NamedField(p, field_list) ==
    Then(parse_name(p),
         LAMBDA n :
            IF n.p.pos - p.pos # 4 THEN ParsePanic(DeclareName(n.p, n.val))
            ELSE Then(OfLength(get_pkg_length(DeclareName(n.p, n.val),
                                              n.p.overflow_checks)),
                      LAMBDA l : FieldsLoop(l.p,
                                            Append(field_list,
                                [f |-> "NamedField", name |-> n.val,
                                 width |-> FieldWidth(l.val), at |-> n.p.pos]))))

\* while self.pos < self.code.len(), and check_empty after it; at is the
\* place of the length of an element in the code of the list
FieldsLoop(p, field_list) ==
    IF p.pos >= Len(p.code)
      THEN Then(check_empty(p), LAMBDA e : ParseOk(e.p, field_list))
    ELSE IF p.code[p.pos + 1] = 0 THEN ReservedField(p, field_list)
    ELSE IF p.code[p.pos + 1] \in {1, 2, 3} THEN ParsePanic(p)
    ELSE NamedField(p, field_list)

\* Parser::parse_fields_list_and_flags
parse_fields_list_and_flags(p) ==
    Then(OfByte(get_next_byte(p)),
         LAMBDA f :
            Then(FieldsLoop(f.p, <<>>),
                 LAMBDA l : ParseOk(l.p, [flags |-> f.val, fields |-> l.val,
                                          code |-> p.code])))

\* FieldDef::parse on the inner parser
FieldDefParse(inner) ==
    Then(parse_name(inner),
         LAMBDA n :
            Then(parse_fields_list_and_flags(n.p),
                 LAMBDA l : ParseOk(l.p, SomeTerm([t |-> "Field", name |-> n.val,
                                                   list |-> l.val]))))

\* IndexFieldDef::parse on the inner parser
IndexFieldDefParse(inner) ==
    Then(parse_name(inner),
         LAMBDA n :
            Then(parse_name(n.p),
                 LAMBDA i :
                    Then(parse_fields_list_and_flags(i.p),
                         LAMBDA l : ParseOk(l.p, SomeTerm([t |-> "IndexField",
                                                           name |-> n.val,
                                                           index_name |-> i.val,
                                                           list |-> l.val])))))

\* the 0x5b arm: the extra opcodes
ExtraTerm(p) ==
    Then(OfByte(get_next_byte(p)),
         LAMBDA o :
            IF o.val = FieldOp
              THEN Then(get_inner_parser(o.p),
                        LAMBDA g : Outer(g.p, FieldDefParse(g.val)))
            ELSE IF o.val = IndexFieldOp
              THEN Then(get_inner_parser(o.p),
                        LAMBDA g : Outer(g.p, IndexFieldDefParse(g.val)))
            ELSE IF o.val \in OtherExtraOpcodes THEN Unmodelled(o.p)
            ELSE ParsePanic(o.p))

\* the 0x08 arm: the name goes into the names set before its value is
\* parsed
NameTerm(p) ==
    Then(parse_name(p),
         LAMBDA n :
            Then(parse_term_arg(DeclareName(n.p, n.val)),
                 LAMBDA a : ParseOk(a.p, SomeTerm([t |-> "NameObj", name |-> n.val,
                                                   arg |-> a.val]))))

\* Parser::try_parse_term
try_parse_term(p, opcode) ==
    IF opcode = NameOp THEN NameTerm(p)
    ELSE IF opcode = MethodOp THEN MethodTerm(p)
    ELSE IF opcode = ExtOpPrefix THEN ExtraTerm(p)
    ELSE IF opcode = StoreOp
      THEN Then(parse_term_arg(p),
                LAMBDA a : Then(parse_target(a.p),
                                LAMBDA g : ParseOk(g.p, SomeTerm([t |-> "Store",
                                                                  arg |-> a.val,
                                                                  target |-> g.val]))))
    ELSE IF opcode = NotifyOp
      THEN Then(parse_target(p),
                LAMBDA g : Then(parse_term_arg(g.p),
                                LAMBDA a : ParseOk(a.p, SomeTerm([t |-> "Notify",
                                                                  target |-> g.val,
                                                                  arg |-> a.val]))))
    ELSE IF opcode = NoopOp THEN ParseOk(p, SomeTerm([t |-> "Noop"]))
    ELSE IF opcode = ReturnOp
      THEN Then(parse_term_arg(p),
                LAMBDA a : ParseOk(a.p, SomeTerm([t |-> "Return", arg |-> a.val])))
    ELSE IF opcode \in OtherOpcodes THEN Unmodelled(p)
    ELSE Then(backward(p, 1),
              LAMBDA b :
                Then(try_parse_name(b.p),
                     LAMBDA n : IF n.val.some THEN TermName(n.p, n.val.name)
                                ELSE ParseOk(n.p, None)))

\* Parser::parse_term: no term is a todo!
parse_term(p) ==
    Then(OfByte(get_next_byte(p)),
         LAMBDA b :
            Then(try_parse_term(b.p, b.val),
                 LAMBDA t : IF t.val.some THEN ParseOk(t.p, t.val.term)
                            ELSE ParsePanic(t.p)))

RECURSIVE TermListLoop(_, _)
TermListLoop(p, term_list) ==
    IF p.pos < Len(p.code)
      THEN Then(parse_term(p), LAMBDA t : TermListLoop(t.p, Append(term_list, t.val)))
      ELSE ParseOk(p, term_list)

\* Parser::parse_term_list
parse_term_list(p) == TermListLoop(p, <<>>)

\* parse_aml: parse_root of a parser with the default State
parse_aml(code, overflow_checks) ==
    parse_term_list([code |-> code, pos |-> 0, scopes |-> <<>>, methods |-> {},
                     names |-> {}, depth |-> 0, trace |-> <<>>,
                     overflow_checks |-> overflow_checks])

(***************************************************************************)
(* The programs the parser is run on                                       *)
(***************************************************************************)
\* "FOO_" and "BAR_", and the same names behind the root char
FOO == <<70, 79, 79, 95>>
BAR == <<66, 65, 82, 95>>
RootFOO == <<RootChar>> \o FOO

ZeroOp == 0
OneOp == 1
Local0Op == 96
Arg0Op == 104

\* a package length of one byte in front of a payload
Pkg(payload) == <<Len(payload) + 1>> \o payload

MethodDef(name, flags, body) == <<MethodOp>> \o Pkg(name \o <<flags>> \o body)
NameDef(name, value) == <<NameOp>> \o name \o value
StoreTo(value, dest) == <<StoreOp>> \o value \o dest
FieldOf(name, flags, elements) == <<ExtOpPrefix, FieldOp>> \o Pkg(name \o <<flags>> \o elements)
IndexFieldOf(name, index_name, flags, elements) ==
    <<ExtOpPrefix, IndexFieldOp>> \o Pkg(name \o index_name \o <<flags>> \o elements)

\* the encodings of a package length: 0x08 is 8, 0x48 0x01 is 24,
\* 0x81 0x00 0x01 is 4097, 0xC1 0x00 0x00 0x01 is 1048577, 0x00 is 0,
\* 0x50 0x01 has bits 4-5 set
Encodings ==
    {<<8>>, <<63>>, <<72, 1>>, <<129, 0, 1>>, <<193, 0, 0, 1>>, <<0>>, <<80, 1>>}

\* the elements of a field list
Elements ==
    {<<ZeroOp>> \o e : e \in Encodings} \cup {BAR \o e : e \in Encodings}

FieldLists == {<<>>} \cup Elements \cup {a \o b : a \in Elements, b \in {<<ZeroOp, 8>>, BAR \o <<72, 1>>}}

FieldPrograms ==
    {FieldOf(FOO, 1, l) : l \in FieldLists}
        \cup {IndexFieldOf(FOO, FOO, 1, l) : l \in Elements}
        \cup {FieldOf(FOO, 1, <<OneOp>>)}

\* what is declared before the name is used
Declarations(name) ==
    {<<>>,
     MethodDef(name, 0, <<>>), MethodDef(name, 1, <<ReturnOp, Arg0Op>>),
     MethodDef(name, 2, <<>>), MethodDef(name, 10, <<NoopOp>>),
     MethodDef(name, 1, <<>>) \o MethodDef(name, 2, <<>>),
     NameDef(name, <<ZeroOp>>),
     StoreTo(<<OneOp>>, name),
     FieldOf(BAR, 0, name \o <<8>>)}

\* the bytes behind the name; 0x02 starts nothing the parser knows
Followers ==
    {<<>>, <<OneOp>>, <<OneOp, Local0Op>>, <<ZeroOp, OneOp, Arg0Op>>,
     <<1, 1, 1, 1, 1, 1, 1>>, <<1, 1, 1, 1, 1, 1, 1, 1>>,
     <<OneOp>> \o StoreTo(<<OneOp>>, BAR),
     <<NoopOp>>, <<OneOp, 2>>, BAR \o <<OneOp>>,
     NameDef(BAR, <<OneOp>>), MethodDef(BAR, 1, <<>>) \o <<OneOp>>,
     <<ReturnOp, OneOp>>}

\* the name in the place of a term, and in the place of a term-arg of a
\* Return, of a Name and of a Store
Uses(name, follow) ==
    {name \o follow,
     <<ReturnOp>> \o name \o follow,
     NameDef(BAR, name) \o follow,
     <<StoreOp>> \o name \o follow \o <<Local0Op>>}

NamePrograms ==
    UNION {UNION {{d \o u : u \in Uses(name, f)} : d \in Declarations(name), f \in Followers}
              : name \in {FOO, RootFOO}}

Programs == NamePrograms \cup FieldPrograms

\* parse_aml on the code, in a build with or without overflow checks
AmlParse(overflow_checks) ==
    /\ amlres.op = "none"
    /\ amlres' = [op |-> "parse_aml", before |-> parser,
                  res |-> parse_aml(parser.code, overflow_checks)]
    /\ parser' = parse_aml(parser.code, overflow_checks).p

NextParse ==
    \E overflow_checks \in BOOLEAN :
        AmlParse(overflow_checks) /\ UNCHANGED <<mutexVars, vmVars, fsVars>>

InitParse ==
    /\ parser \in {[code |-> c, pos |-> 0] : c \in Programs}
    /\ amlres = NoCall

InitSpecParse ==
    InitCpus([c \in Cpus |-> TRUE]) /\ InitVMOver(EmptyTable) /\ InitFsIdle /\ InitParse

SpecParse == InitSpecParse /\ [][NextParse]_vars

\* the history of the parse that was run, and its events of one kind
Trace == IF amlres.op = "parse_aml" THEN amlres.res.p.trace ELSE <<>>
Events(ev) == {i \in 1..Len(Trace) : Trace[i].ev = ev}

(***************************************************************************)
(* Properties of the term parser                                           *)
(***************************************************************************)
\* the Field and IndexField terms of the parsed code
FieldTerms ==
    IF amlres.op = "parse_aml" /\ amlres.res.status = "Ok"
      THEN {amlres.res.val[i] : i \in {j \in 1..Len(amlres.res.val) :
                                          amlres.res.val[j].t \in {"Field", "IndexField"}}}
      ELSE {}

\* the value a package length encodes: the low six bits of a lead byte
\* without following bytes, else the low four bits of the lead byte below
\* the following bytes
EncodedValue(code, at) ==
    IF code[at + 1] \div 64 = 0 THEN code[at + 1] % 64
    ELSE (code[at + 1] % 16)
            + (16 * FollowingValue(code, at + 2, code[at + 1] \div 64))

\* C24: in the field list of a Field or IndexField the bit width recorded
\* for each reserved field and each named field is the value of the package
\* length encoded after it, for every encoding of one to four bytes.
C24_FieldWidth ==
    \A term \in FieldTerms :
        \A i \in 1..Len(term.list.fields) :
            term.list.fields[i].width
                = EncodedValue(term.list.code, term.list.fields[i].at)

\* C28: a speculative probe has no effect on the parser it probes for: after
\* predict_possible_args the cursor, the table of known methods and the set
\* of known names are what they were before it.
C28_ProbeLeavesParser ==
    \A i \in Events("Probe") : Trace[i].after = Trace[i].before

\* what ends a probe: a parse error, a bare name, a Store and a Notify
Stops == {"Err", "Name", "Store", "Notify"}

\* the tries of a probe in front of the first one that ends it
RECURSIVE ArgsBeforeStop(_)
ArgsBeforeStop(tries) ==
    IF tries = <<>> \/ Head(tries) \in Stops THEN 0
    ELSE 1 + ArgsBeforeStop(Tail(tries))

\* C23: the speculative probe always yields a count between 0 and 7, the
\* number of term-args it parsed before the first bare name, Store or Notify
\* expression, or failure; malformed or unsupported bytes met while probing
\* only end the probe and never make the enclosing parse fail or abort.
C23_ProbeYieldsCount ==
    \A i \in Events("Probe") :
        /\ Trace[i].status = "Ok"
        /\ Trace[i].n_args \in 0..7
        /\ Trace[i].n_args = ArgsBeforeStop(Trace[i].tries)

\* the events of a kind about a name in front of place j of the history
Earlier(ev, name, j) == {i \in Events(ev) : i < j /\ Trace[i].name = name}

\* the occurrences of names in the parse itself, outside every probe
Occurrences == {j \in Events("Occurrence") : Trace[j].depth = 0}

\* C22: a name that is in the known-names set (put there by a Name, an
\* Alias, a field or a store target) and is no known method is parsed as a
\* variable reference that consumes no arguments, wherever it occurs later,
\* and the speculative probe is not run for it.
C22_KnownNameIsReference ==
    \A j \in Occurrences :
        (/\ Earlier("Name", Trace[j].name, j) # {}
         /\ Earlier("Method", Trace[j].name, j) = {}) =>
            /\ ~Trace[j].call
            /\ Trace[j].n_args = 0
            /\ ~Trace[j].probed

\* the last place of a set of places of the history
Last(places) == CHOOSE i \in places : \A k \in places : k <= i

\* C21: once Method(FOO, n) has been parsed, every later occurrence of the
\* name FOO, in the place of a term or of a term-arg, is parsed as a method
\* call that consumes exactly n term-args, whatever the speculative probe
\* would have guessed.
C21_KnownMethodArity ==
    \A j \in Occurrences :
        Earlier("Method", Trace[j].name, j) # {} =>
            /\ Trace[j].call
            /\ Trace[j].n_args = Trace[Last(Earlier("Method", Trace[j].name, j))].n_args
            /\ ~Trace[j].probed

====
